---------------------------- MODULE Spec2Model ----------------------------
(***************************************************************************)
(* Gemini Runner: the economy / progression state machine of src/store.ts  *)
(* (a zustand store) together with the callers of its operations in        *)
(* src/components/World/LevelManager.tsx (the simulation tick, the shop    *)
(* and the HUD).                                                           *)
(*                                                                         *)
(* The store is the record s.  set(partial) merges a partial record into   *)
(* it.  setTimeout callbacks are pending timers: a set of remaining        *)
(* seconds per callback body; one second elapses with TimePasses and a     *)
(* timer whose remaining time is 0 runs before time moves on.              *)
(***************************************************************************)
EXTENDS Integers, Sequences, FiniteSets, TLC

VARIABLES
    s,                  \* the store's state (GameState, store.ts 12-54)
    immortalityTimers,  \* pending "isImmortalityActive: false" timeouts
    timeWarpTimers,     \* pending "isTimeWarpActive: false" timeouts
    shopTimers,         \* pending "isShopInvincible: false" timeouts
    frame,              \* TRUE while the simulation tick's pass is running
    portal,             \* TRUE while a SHOP_PORTAL lies ahead of the player
    reviveWindow,       \* history: seconds left of the last revive's 3 s
    windows,            \* history: seconds left of the window opened by the
                        \* last closeShop and by the last activations
    now,                \* the wall clock that Date.now() reads, in ms
    last,               \* history: the operation that ran last
    arg,                \* history: that operation's arguments
    before,             \* history: the store before that operation
    returned,           \* history: <<v>> if that operation returned v, else <<>>
    objects,            \* the entity registry (objectsRef.current), in order
    refs,               \* LevelManager's other refs: prevStatus, prevLevel,
                        \* distanceTraveled, nextLetterDistance,
                        \* lastDroneFireRef, and the next entity id
    evt,                \* history: what the last operation did to entities
    items               \* ShopScreen's items state (the three offers on
                        \* screen), <<>> while the screen is not mounted

timerVars == <<immortalityTimers, timeWarpTimers, shopTimers>>
worldVars == <<objects, refs, evt, items>>
vars == <<s, immortalityTimers, timeWarpTimers, shopTimers, frame, portal,
          reviveWindow, windows, now, last, arg, before, returned,
          objects, refs, evt, items>>

---------------------------------------------------------------------------
(* Bounds of the model *)

\* levels the model lets a run reach
MaxLevel == 2
\* levels SpecRun lets a run reach: the lane count meets its cap at level 4
MaxDeepLevel == 5
\* gems SpecRun lets a run collect
MaxGems == 1
\* gems Spec and SpecTimed let a run collect to pay the shop's prices
MaxFunds == 1
\* timeouts of an earlier run that SpecTimed lets a restart leave pending
MaxStale == 1
\* the wall clock at the start, in ms since 1970: any time of this century
\* is further from 0 than the cooldown
Epoch == 1000000
\* seconds SpecSonic lets the wall clock advance
MaxTime == 17
\* currency SpecShop lets a run spend beyond what it has earned: the price
\* of the seven lives between maxLives 3 and its cap
MaxSpend == 70

---------------------------------------------------------------------------
(* Program constants *)

\* The base run speed is imported from ./types; speed is measured in
\* fortieths of it, so that 2.5% and 10% of the base are whole numbers.
RUN_SPEED_BASE == 40

\* targetLevels of an endless run; larger than any level
Infinity == 1000000

GEMINI_TARGET == <<"G", "E", "M", "I", "N", "I">>

\* store.ts 82, in ms
SONIC_BLAST_COOLDOWN == 15000

\* timeout delays, in seconds
REVIVE_IMMORTALITY == 3
SHOP_GRACE == 3
ABILITY_WINDOW == 5

GameModes == {"NORMAL", "ASSIST", "CHEAT"}
GameStatuses == {"MENU", "LEVEL_SELECT", "PLAYING", "SHOP", "GAME_OVER", "VICTORY"}

---------------------------------------------------------------------------
(* Inputs the model draws *)

\* startGame's argument in SpecRun: finite targets and the endless run
TargetChoices == {3, 5, Infinity}
\* collectGem's value: 10 is the common gem of createRandomGem; the tick only
\* passes multiples of 5, and 3 is a value at which the floor rounds
GemValues == {3, 10}
\* letter indices the spawner hands to collectLetter
LetterIndices == 0 .. (Len(GEMINI_TARGET) - 1)
\* prices passed to buyItem, on the scale of one common gem
Costs == {10}
\* item types the shop offers in this model
ItemTypes == {"SHIELD", "REVIVE", "IMMORTAL"}
\* the types buyItem counts up to a cap, and those it unlocks once
CappedTypes == {"HEAL", "MAX_LIFE", "SHIELD", "MAGNET"}
OneTimeTypes == {"DOUBLE_JUMP", "IMMORTAL", "TIME_WARP", "GEM_BOOSTER",
                 "LUCK_CHARM", "SONIC_BLAST", "DRONE", "REVIVE", "DISCOUNT"}
\* buyItem's type in SpecShop: every type of SHOP_ITEMS, the exchange, and a
\* string that names no item (the parameter is declared as string)
ShopTypes == CappedTypes \cup OneTimeTypes \cup {"EXCHANGE", "UNKNOWN"}
\* buyItem's cost in SpecShop: the worth of one common gem, and twice that
ShopCosts == {10, 20}
\* buyItem's cost in SpecCaps: free, so that money never ends a sequence
FreeCosts == {0}

---------------------------------------------------------------------------
(* Helpers *)

Min(a, b) == IF a < b THEN a ELSE b

\* zustand's set(partial): the partial's fields replace the state's
Set(st, partial) == partial @@ st

\* an includes that looks at the newest element only
Includes_NewestOnly(seq, x) == Len(seq) > 0 /\ seq[Len(seq)] = x

\* Array.prototype.includes
Includes(seq, x) == \E i \in 1 .. Len(seq) : seq[i] = x

InitialState ==
    [ status |-> "MENU", gameMode |-> "NORMAL", targetLevels |-> 5,
      score |-> 0, currency |-> 0, lives |-> 3, maxLives |-> 3, speed |-> 0,
      collectedLetters |-> <<>>, level |-> 1, laneCount |-> 3,
      gemsCollected |-> 0, distance |-> 0,
      hasDoubleJump |-> FALSE, hasImmortality |-> FALSE,
      isImmortalityActive |-> FALSE, isShopInvincible |-> FALSE,
      magnetLevel |-> 0, shieldCount |-> 0,
      hasTimeWarp |-> FALSE, isTimeWarpActive |-> FALSE,
      hasGemBooster |-> FALSE, hasLuckCharm |-> FALSE,
      hasSonicBlast |-> FALSE, lastSonicBlastTime |-> 0,
      hasDrone |-> FALSE, hasRevive |-> FALSE, hasDiscount |-> FALSE,
      playerLane |-> 0, showJumpAlert |-> FALSE ]

---------------------------------------------------------------------------
(* The store's operations.  Each is the whole handler: the new store state *)
(* and the timeouts it arms.                                               *)

selectMode(mode) ==
    /\ s' = Set(s, [gameMode |-> mode, status |-> "LEVEL_SELECT"])
    /\ UNCHANGED timerVars

\* a startGame that leaves the wallet, the shields and the lives of the
\* previous run
StartState_KeepsHoldings(st, targetLevels) ==
    LET isCheat == st.gameMode = "CHEAT" IN
    Set(st,
        [ status |-> "PLAYING", targetLevels |-> targetLevels,
          score |-> 0, speed |-> RUN_SPEED_BASE,
          collectedLetters |-> <<>>, level |-> 1, laneCount |-> 3,
          gemsCollected |-> 0, distance |-> 0,
          hasDoubleJump |-> isCheat, hasImmortality |-> isCheat,
          isImmortalityActive |-> FALSE, isShopInvincible |-> FALSE,
          magnetLevel |-> IF isCheat THEN 5 ELSE 0,
          hasTimeWarp |-> isCheat, isTimeWarpActive |-> FALSE,
          hasGemBooster |-> isCheat, hasLuckCharm |-> isCheat,
          hasSonicBlast |-> isCheat, lastSonicBlastTime |-> 0,
          hasDrone |-> isCheat, hasRevive |-> isCheat, hasDiscount |-> isCheat,
          playerLane |-> 0, showJumpAlert |-> FALSE ])

\* the state startGame sets; isCheat is read from the current state
StartState(st, targetLevels) ==
    LET isCheat == st.gameMode = "CHEAT" IN
    Set(st,
        [ status |-> "PLAYING", targetLevels |-> targetLevels,
          score |-> 0, currency |-> IF isCheat THEN 9999999 ELSE 0,
          lives |-> 3, maxLives |-> 3, speed |-> RUN_SPEED_BASE,
          collectedLetters |-> <<>>, level |-> 1, laneCount |-> 3,
          gemsCollected |-> 0, distance |-> 0,
          hasDoubleJump |-> isCheat, hasImmortality |-> isCheat,
          isImmortalityActive |-> FALSE, isShopInvincible |-> FALSE,
          magnetLevel |-> IF isCheat THEN 5 ELSE 0,
          shieldCount |-> IF isCheat THEN 3 ELSE 0,
          hasTimeWarp |-> isCheat, isTimeWarpActive |-> FALSE,
          hasGemBooster |-> isCheat, hasLuckCharm |-> isCheat,
          hasSonicBlast |-> isCheat, lastSonicBlastTime |-> 0,
          hasDrone |-> isCheat, hasRevive |-> isCheat, hasDiscount |-> isCheat,
          playerLane |-> 0, showJumpAlert |-> FALSE ])

startGame(targetLevels) ==
    /\ s' = StartState(s, targetLevels)
    /\ UNCHANGED timerVars

restartGame == startGame(s.targetLevels)

\* a takeDamage that forgets the grace period after the shop
Immune_NoShopGrace(st) ==
    st.gameMode = "CHEAT" \/ st.isImmortalityActive

\* a takeDamage that does not look at the game mode
Immune_CheatExposed(st) ==
    st.isImmortalityActive \/ st.isShopInvincible

\* store.ts 178: the three immunities under which takeDamage returns at once
Immune(st) ==
    st.gameMode = "CHEAT" \/ st.isImmortalityActive \/ st.isShopInvincible

\* a takeDamage that takes the life before the shield
DamageState_LifeFirst(st) ==
    IF Immune(st) THEN st
    ELSE IF st.lives > 1
        THEN Set(st, [lives |-> st.lives - 1])
    ELSE IF st.shieldCount > 0
        THEN Set(st, [shieldCount |-> st.shieldCount - 1])
    ELSE IF st.hasRevive
        THEN Set(st, [lives |-> st.maxLives, hasRevive |-> FALSE,
                      isImmortalityActive |-> TRUE])
    ELSE IF st.targetLevels = Infinity
        THEN Set(st, [lives |-> 0, status |-> "VICTORY", speed |-> 0])
    ELSE Set(st, [lives |-> 0, status |-> "GAME_OVER", speed |-> 0])

\* a takeDamage that ends every run as a failure
DamageState_AlwaysGameOver(st) ==
    IF Immune(st) THEN st
    ELSE IF st.shieldCount > 0
        THEN Set(st, [shieldCount |-> st.shieldCount - 1])
    ELSE IF st.lives > 1
        THEN Set(st, [lives |-> st.lives - 1])
    ELSE IF st.hasRevive
        THEN Set(st, [lives |-> st.maxLives, hasRevive |-> FALSE,
                      isImmortalityActive |-> TRUE])
    ELSE Set(st, [lives |-> 0, status |-> "GAME_OVER", speed |-> 0])

\* a takeDamage whose last branch takes a life from whatever is left
DamageState_BelowZero(st) ==
    IF Immune(st) THEN st
    ELSE IF st.shieldCount > 0
        THEN Set(st, [shieldCount |-> st.shieldCount - 1])
    ELSE IF st.lives > 1
        THEN Set(st, [lives |-> st.lives - 1])
    ELSE IF st.hasRevive
        THEN Set(st, [lives |-> st.maxLives, hasRevive |-> FALSE,
                      isImmortalityActive |-> TRUE])
    ELSE IF st.targetLevels = Infinity
        THEN Set(st, [lives |-> st.lives - 1, status |-> "VICTORY", speed |-> 0])
    ELSE Set(st, [lives |-> st.lives - 1, status |-> "GAME_OVER", speed |-> 0])

\* the store state takeDamage leaves
DamageState(st) ==
    IF Immune(st) THEN st
    ELSE IF st.shieldCount > 0
        THEN Set(st, [shieldCount |-> st.shieldCount - 1])
    ELSE IF st.lives > 1
        THEN Set(st, [lives |-> st.lives - 1])
    ELSE IF st.hasRevive
        THEN Set(st, [lives |-> st.maxLives, hasRevive |-> FALSE,
                      isImmortalityActive |-> TRUE])
    ELSE IF st.targetLevels = Infinity
        THEN Set(st, [lives |-> 0, status |-> "VICTORY", speed |-> 0])
    ELSE Set(st, [lives |-> 0, status |-> "GAME_OVER", speed |-> 0])

\* takeDamage reaches its revive branch, which arms the 3 s timeout
Revives(st) ==
    ~Immune(st) /\ st.shieldCount = 0 /\ st.lives <= 1 /\ st.hasRevive

takeDamage ==
    /\ s' = DamageState(s)
    /\ immortalityTimers' =
          IF Revives(s) THEN immortalityTimers \cup {REVIVE_IMMORTALITY}
          ELSE immortalityTimers
    /\ UNCHANGED <<timeWarpTimers, shopTimers>>

\* a collectGem that rounds the value up
FinalValue_RoundsUp(value, level, hasGemBooster) ==
    (value * (level + 4) * (IF hasGemBooster THEN 2 ELSE 1) + 4) \div 5

\* store.ts 220-223: Math.floor(value * (1 + (level - 1) * 0.2) * boost),
\* computed exactly: (1 + (level - 1) / 5) = (level + 4) / 5
FinalValue(value, level, hasGemBooster) ==
    (value * (level + 4) * (IF hasGemBooster THEN 2 ELSE 1)) \div 5

\* a collectGem that heals without looking at maxLives
GemState_HealsPastMax(st, value, isHealing) ==
    LET finalValue == FinalValue(value, st.level, st.hasGemBooster)
        updates == [ score |-> st.score + finalValue * 10,
                     currency |-> st.currency + finalValue,
                     gemsCollected |-> st.gemsCollected + 1 ]
    IN  IF isHealing
        THEN Set(st, [lives |-> st.lives + 1] @@ updates)
        ELSE Set(st, updates)

\* the store state collectGem leaves
GemState(st, value, isHealing) ==
    LET finalValue == FinalValue(value, st.level, st.hasGemBooster)
        updates == [ score |-> st.score + finalValue * 10,
                     currency |-> st.currency + finalValue,
                     gemsCollected |-> st.gemsCollected + 1 ]
    IN  IF isHealing /\ st.lives < st.maxLives
        THEN Set(st, [lives |-> st.lives + 1] @@ updates)
        ELSE Set(st, updates)

collectGem(value, isHealing) ==
    /\ s' = GemState(s, value, isHealing)
    /\ UNCHANGED timerVars

\* an advanceLevel that forgets the cap
NextLaneCount_NoCap(laneCount) == laneCount + 2

\* store.ts 280
NextLaneCount(laneCount) == Min(laneCount + 2, 9)

\* an advanceLevel that leaves the lanes as they are
AdvanceState_KeepsLanes(st) ==
    Set(st, [ level |-> st.level + 1,
              status |-> "PLAYING",
              speed |-> st.speed + (RUN_SPEED_BASE * 10) \div 100,
              collectedLetters |-> <<>> ])

\* the store state advanceLevel leaves
AdvanceState(st) ==
    LET nextLevel == st.level + 1
        speedIncrease == (RUN_SPEED_BASE * 10) \div 100
    IN  Set(st, [ level |-> nextLevel,
                  laneCount |-> NextLaneCount(st.laneCount),
                  status |-> "PLAYING",
                  speed |-> st.speed + speedIncrease,
                  collectedLetters |-> <<>> ])

advanceLevel ==
    /\ s' = AdvanceState(s)
    /\ UNCHANGED timerVars

\* a collectLetter with the former speed increase of 10%
LetterState_TenPercent(st, index) ==
    IF ~Includes(st.collectedLetters, index)
    THEN LET newLetters == Append(st.collectedLetters, index)
             speedIncrease == (RUN_SPEED_BASE * 10) \div 100
             st1 == Set(st, [ collectedLetters |-> newLetters,
                              speed |-> st.speed + speedIncrease ])
         IN  IF Len(newLetters) = Len(GEMINI_TARGET)
             THEN IF st.targetLevels = Infinity \/ st.level < st.targetLevels
                  THEN AdvanceState(st1)
                  ELSE Set(st1, [ status |-> "VICTORY",
                                  score |-> st1.score + 10000 ])
             ELSE st1
    ELSE st

\* a collectLetter that advances once more at the target level
LetterState_AdvancesAtTarget(st, index) ==
    IF ~Includes(st.collectedLetters, index)
    THEN LET newLetters == Append(st.collectedLetters, index)
             speedIncrease == (RUN_SPEED_BASE * 25) \div 1000
             st1 == Set(st, [ collectedLetters |-> newLetters,
                              speed |-> st.speed + speedIncrease ])
         IN  IF Len(newLetters) = Len(GEMINI_TARGET)
             THEN IF st.targetLevels = Infinity \/ st.level <= st.targetLevels
                  THEN AdvanceState(st1)
                  ELSE Set(st1, [ status |-> "VICTORY",
                                  score |-> st1.score + 10000 ])
             ELSE st1
    ELSE st

\* the store state collectLetter leaves
LetterState(st, index) ==
    IF ~Includes(st.collectedLetters, index)
    THEN LET newLetters == Append(st.collectedLetters, index)
             speedIncrease == (RUN_SPEED_BASE * 25) \div 1000
             st1 == Set(st, [ collectedLetters |-> newLetters,
                              speed |-> st.speed + speedIncrease ])
         IN  IF Len(newLetters) = Len(GEMINI_TARGET)
             THEN IF st.targetLevels = Infinity \/ st.level < st.targetLevels
                  THEN AdvanceState(st1)
                  ELSE Set(st1, [ status |-> "VICTORY",
                                  score |-> st1.score + 10000 ])
             ELSE st1
    ELSE st

collectLetter(index) ==
    /\ s' = LetterState(s, index)
    /\ UNCHANGED timerVars

openShop ==
    /\ s' = Set(s, [status |-> "SHOP", isShopInvincible |-> TRUE])
    /\ UNCHANGED timerVars

closeShop ==
    /\ s' = Set(s, [status |-> "PLAYING", isShopInvincible |-> TRUE])
    /\ shopTimers' = shopTimers \cup {SHOP_GRACE}
    /\ UNCHANGED <<immortalityTimers, timeWarpTimers>>

\* a buyItem that sells a one-time ability again
Blocked_CapsOnly(st, type) ==
    \/ type = "HEAL" /\ st.lives >= st.maxLives
    \/ type = "MAX_LIFE" /\ st.maxLives >= 10
    \/ type = "SHIELD" /\ st.shieldCount >= 3
    \/ type = "MAGNET" /\ st.magnetLevel >= 5

\* store.ts 327-341: the type is already owned or at its cap
Blocked(st, type) ==
    \/ type = "HEAL" /\ st.lives >= st.maxLives
    \/ type = "MAX_LIFE" /\ st.maxLives >= 10
    \/ type = "SHIELD" /\ st.shieldCount >= 3
    \/ type = "MAGNET" /\ st.magnetLevel >= 5
    \/ type = "DOUBLE_JUMP" /\ st.hasDoubleJump
    \/ type = "IMMORTAL" /\ st.hasImmortality
    \/ type = "TIME_WARP" /\ st.hasTimeWarp
    \/ type = "GEM_BOOSTER" /\ st.hasGemBooster
    \/ type = "LUCK_CHARM" /\ st.hasLuckCharm
    \/ type = "SONIC_BLAST" /\ st.hasSonicBlast
    \/ type = "DRONE" /\ st.hasDrone
    \/ type = "REVIVE" /\ st.hasRevive
    \/ type = "DISCOUNT" /\ st.hasDiscount

\* store.ts 347-389: the switch, applied after the debit to the values read
\* at the top of buyItem (st0)
Unlock(st, st0, type) ==
    CASE type = "DOUBLE_JUMP" -> Set(st, [hasDoubleJump |-> TRUE])
      [] type = "MAX_LIFE" ->
            IF st0.maxLives < 10
            THEN Set(st, [maxLives |-> st0.maxLives + 1, lives |-> st0.lives + 1])
            ELSE st
      [] type = "HEAL" -> Set(st, [lives |-> Min(st0.lives + 1, st0.maxLives)])
      [] type = "IMMORTAL" -> Set(st, [hasImmortality |-> TRUE])
      [] type = "MAGNET" -> Set(st, [magnetLevel |-> Min(st0.magnetLevel + 1, 5)])
      [] type = "SHIELD" -> Set(st, [shieldCount |-> Min(st0.shieldCount + 1, 3)])
      [] type = "TIME_WARP" -> Set(st, [hasTimeWarp |-> TRUE])
      [] type = "GEM_BOOSTER" -> Set(st, [hasGemBooster |-> TRUE])
      [] type = "LUCK_CHARM" -> Set(st, [hasLuckCharm |-> TRUE])
      [] type = "SONIC_BLAST" ->
            Set(st, [hasSonicBlast |-> TRUE, lastSonicBlastTime |-> 0])
      [] type = "DRONE" -> Set(st, [hasDrone |-> TRUE])
      [] type = "REVIVE" -> Set(st, [hasRevive |-> TRUE])
      [] type = "DISCOUNT" -> Set(st, [hasDiscount |-> TRUE])
      [] OTHER -> st

\* a buyItem that sells past the caps
BuyState_NoCaps(st, type, cost) ==
    IF type = "EXCHANGE"
    THEN IF st.currency > 0
         THEN Set(st, [score |-> st.score + st.currency * 100, currency |-> 0])
         ELSE st
    ELSE IF st.currency >= cost
         THEN LET st1 == Set(st, [currency |-> st.currency - cost]) IN
              CASE type = "MAX_LIFE" ->
                     Set(st1, [maxLives |-> st.maxLives + 1, lives |-> st.lives + 1])
                [] type = "MAGNET" -> Set(st1, [magnetLevel |-> st.magnetLevel + 1])
                [] type = "SHIELD" -> Set(st1, [shieldCount |-> st.shieldCount + 1])
                [] OTHER -> Unlock(st1, st, type)
         ELSE st

\* a buyItem whose exchange reports success only at an affordable cost
BuyResult_ExchangeAtCost(st, type, cost) ==
    IF type = "EXCHANGE" THEN st.currency > 0 /\ st.currency >= cost
    ELSE ~Blocked(st, type) /\ st.currency >= cost

\* buyItem's return value
BuyResult(st, type, cost) ==
    IF type = "EXCHANGE" THEN st.currency > 0
    ELSE ~Blocked(st, type) /\ st.currency >= cost

\* the store state buyItem leaves
BuyState(st, type, cost) ==
    IF type = "EXCHANGE"
    THEN IF st.currency > 0
         THEN Set(st, [score |-> st.score + st.currency * 100, currency |-> 0])
         ELSE st
    ELSE IF Blocked(st, type) THEN st
    ELSE IF st.currency >= cost
         THEN Unlock(Set(st, [currency |-> st.currency - cost]), st, type)
         ELSE st

buyItem(type, cost) ==
    /\ s' = BuyState(s, type, cost)
    /\ UNCHANGED timerVars

\* a spendCurrency that debits without looking at the balance
SpendState_NoCheck(st, amount) ==
    Set(st, [currency |-> st.currency - amount])

\* spendCurrency(amount): the store it leaves, and what it returns
SpendState(st, amount) ==
    IF st.currency >= amount
    THEN Set(st, [currency |-> st.currency - amount])
    ELSE st

SpendResult(st, amount) == st.currency >= amount

spendCurrency(amount) ==
    /\ s' = SpendState(s, amount)
    /\ UNCHANGED timerVars

---------------------------------------------------------------------------
(* The shop screen (ShopScreen in LevelManager.tsx) *)

\* SHOP_ITEMS: the cost of each item
SHOP_ITEMS ==
    [ DOUBLE_JUMP |-> 200, MAX_LIFE |-> 300, HEAL |-> 100, IMMORTAL |-> 600,
      MAGNET |-> 400, SHIELD |-> 150, TIME_WARP |-> 500, GEM_BOOSTER |-> 800,
      LUCK_CHARM |-> 400, SONIC_BLAST |-> 1000, DRONE |-> 6000,
      REVIVE |-> 4000, DISCOUNT |-> 8000 ]

\* the fee of handleRefresh
REFRESH_FEE == 100

Item(id) == [id |-> id, cost |-> SHOP_ITEMS[id]]

\* the offer that fills an empty slot
ExchangeItem == [id |-> "EXCHANGE", cost |-> 0]

\* generateShopItems' filter keeps the items that are neither owned nor at
\* their cap: its thirteen tests are the tests buyItem blocks a purchase by
Pool(st) == {id \in DOMAIN SHOP_ITEMS : ~Blocked(st, id)}

\* the orders the shuffle can leave a set of ids in
Orders(ids) ==
    {q \in [1 .. Cardinality(ids) -> ids] :
        \A i, j \in DOMAIN q : i # j => q[i] # q[j]}

\* generateShopItems(state): the lists it can return. The pool is shuffled
\* and its first three items are taken; the slots a pool of fewer than
\* three leaves empty are filled with the exchange.
generateShopItems(st) ==
    LET pool == Pool(st) IN
    IF Cardinality(pool) >= 3
    THEN {<<Item(a), Item(b), Item(c)>> :
             <<a, b, c>> \in {q \in pool \X pool \X pool :
                                 q[1] # q[2] /\ q[1] # q[3] /\ q[2] # q[3]}}
    ELSE {[i \in 1 .. 3 |-> IF i <= Len(q) THEN Item(q[i]) ELSE ExchangeItem] :
             q \in Orders(pool)}

\* the cost a button shows and handleBuyAll recalculates: 80% of the item's
\* cost, rounded down, under the discount; the whole wallet for the exchange
finalCost(st, item) ==
    IF item.id = "EXCHANGE" THEN st.currency
    ELSE IF st.hasDiscount THEN (item.cost * 8) \div 10
    ELSE item.cost

\* the render disables the button of an offer the wallet cannot pay, of a
\* consumable at its cap and of a skill that is sold
isDisabled(st, item) ==
    \/ IF item.id = "EXCHANGE" THEN ~(st.currency > 0)
       ELSE ~(st.currency >= finalCost(st, item))
    \/ Blocked(st, item.id)

\* one round of handleBuyAll's forEach, on the store as it is by then
BuyAllValid(st, item) ==
    /\ ~(item.id = "HEAL" /\ st.lives >= st.maxLives)
    /\ ~(item.id = "SHIELD" /\ st.shieldCount >= 3)

BuyAllCalls(st, item) ==
    BuyAllValid(st, item) /\ st.currency >= finalCost(st, item)

BuyAllRound(st, item) ==
    IF BuyAllCalls(st, item)
    THEN BuyState(st, item.id, finalCost(st, item))
    ELSE st

RECURSIVE BuyAllState(_, _)
BuyAllState(st, list) ==
    IF list = <<>> THEN st
    ELSE BuyAllState(BuyAllRound(st, Head(list)), Tail(list))

\* an activateImmortality that starts a window over an active one
activateImmortality_Rearms ==
    IF s.hasImmortality
    THEN /\ s' = Set(s, [isImmortalityActive |-> TRUE])
         /\ immortalityTimers' = immortalityTimers \cup {ABILITY_WINDOW}
         /\ UNCHANGED <<timeWarpTimers, shopTimers>>
    ELSE UNCHANGED <<s, timerVars>>

activateImmortality ==
    IF s.hasImmortality /\ ~s.isImmortalityActive
    THEN /\ s' = Set(s, [isImmortalityActive |-> TRUE])
         /\ immortalityTimers' = immortalityTimers \cup {ABILITY_WINDOW}
         /\ UNCHANGED <<timeWarpTimers, shopTimers>>
    ELSE UNCHANGED <<s, timerVars>>

activateTimeWarp ==
    IF s.hasTimeWarp /\ ~s.isTimeWarpActive
    THEN /\ s' = Set(s, [isTimeWarpActive |-> TRUE])
         /\ timeWarpTimers' = timeWarpTimers \cup {ABILITY_WINDOW}
         /\ UNCHANGED <<immortalityTimers, shopTimers>>
    ELSE UNCHANGED <<s, timerVars>>

\* triggerSonicBlast's return value (store.ts 418), time being Date.now()
SonicResult(st, time) ==
    st.hasSonicBlast /\ time - st.lastSonicBlastTime > SONIC_BLAST_COOLDOWN

\* the store state triggerSonicBlast leaves
SonicState(st, time) ==
    IF SonicResult(st, time) THEN Set(st, [lastSonicBlastTime |-> time]) ELSE st

triggerSonicBlast ==
    /\ s' = SonicState(s, now)
    /\ UNCHANGED timerVars

---------------------------------------------------------------------------
(* Timeouts *)

\* the callback of store.ts 198-200 and 399-401
ImmortalityTimeout(t) ==
    /\ t \in immortalityTimers
    /\ s' = Set(s, [isImmortalityActive |-> FALSE])
    /\ immortalityTimers' = immortalityTimers \ {t}
    /\ UNCHANGED <<timeWarpTimers, shopTimers>>

\* the callback of store.ts 409-411
TimeWarpTimeout(t) ==
    /\ t \in timeWarpTimers
    /\ s' = Set(s, [isTimeWarpActive |-> FALSE])
    /\ timeWarpTimers' = timeWarpTimers \ {t}
    /\ UNCHANGED <<immortalityTimers, shopTimers>>

\* the callback of store.ts 292-294
ShopTimeout(t) ==
    /\ t \in shopTimers
    /\ s' = Set(s, [isShopInvincible |-> FALSE])
    /\ shopTimers' = shopTimers \ {t}
    /\ UNCHANGED <<immortalityTimers, timeWarpTimers>>

Elapse(timers) == {t - 1 : t \in timers}

\* one second of the timeouts' delays; a due timeout runs first
TimePasses ==
    /\ 0 \notin (immortalityTimers \cup timeWarpTimers \cup shopTimers)
    /\ immortalityTimers' = Elapse(immortalityTimers)
    /\ timeWarpTimers' = Elapse(timeWarpTimers)
    /\ shopTimers' = Elapse(shopTimers)
    /\ UNCHANGED s
---------------------------------------------------------------------------
(* The entity registry and the simulation tick of LevelManager.tsx.        *)
(* Positions on the travel axis (position[2]) are whole multiples of       *)
(* 1/Unit, heights (position[1]) are tenths, and the lateral position      *)
(* (position[0]) is a lane index: lanes lie further apart than the 0.9 of  *)
(* the hit test, so an entity is within 0.9 of the player exactly when     *)
(* both are in the same lane.  The tick reads a speed of RUN_SPEED_BASE as *)
(* 40 units per second.                                                    *)

\* parts of a world unit per position step: the smallest travel of a tick
\* (speed 1, time warp, 1/40 s) is 1/80 of a unit
Unit == 80
Z(units) == units * Unit

\* LANE_WIDTH, SPAWN_DISTANCE and REMOVE_DISTANCE are imported from ./types
SPAWN_DISTANCE == 120
REMOVE_DISTANCE == 20

BASE_LETTER_INTERVAL == 150
MISSILE_SPEED == 30
\* heights in tenths
OBSTACLE_HEIGHT == 16
PLAYER_HEIGHT == 18
\* the half-width of the player's collision window and of the portal's
Z_THRESHOLD == 2
PORTAL_REACH == 2
PORTAL_Z == -100
LEVEL_UP_KEEP == -80
ALIEN_TRIGGER == -90
MISSILE_OFFSET == 2
DRONE_INTERVAL == 2000
DRONE_RANGE == 40
DRONE_MIN_DIST == 999
BLAST_BEHIND == 5
BLAST_AHEAD == -150
EMPTY_FRONTIER == -20
MIN_GAP == 12
\* the clamp of the tick's delta, 0.05 s, in fortieths of a second
MAX_DELTA == 2
\* playerPos.z: the player stands at the origin of the travel axis
PlayerZ == 0

Abs(n) == IF n < 0 THEN 0 - n ELSE n

RECURSIVE getLetterInterval(_)
\* BASE_LETTER_INTERVAL * 1.15^max(0, level - 1), rounded down to a step
getLetterInterval(level) ==
    IF level <= 1 THEN Z(BASE_LETTER_INTERVAL)
    ELSE (getLetterInterval(level - 1) * 115) \div 100

InitialRefs ==
    [ prevStatus |-> "MENU", prevLevel |-> 1,
      distanceTraveled |-> 0, nextLetterDistance |-> Z(BASE_LETTER_INTERVAL),
      lastDroneFire |-> 0, nextId |-> 1 ]
\* nextId stands for uuidv4(): an id no entity of the registry has; it
\* starts again at 1 when the registry is emptied

\* nothing happened to any entity
NoEvents ==
    [ hit |-> <<>>, shop |-> <<>>, collected |-> <<>>, shot |-> <<>>,
      blasted |-> <<>>, launched |-> <<>>, late |-> <<>> ]

IsHazard(type) == type \in {"OBSTACLE", "ALIEN", "MISSILE"}

\* a GameObject: the fields the tick reads and writes, and as history the
\* number of 'player-hit' events the entity has caused
Entity(id, type, x, y, z) ==
    [ id |-> id, type |-> type, x |-> x, y |-> y, z |-> z,
      active |-> TRUE, hasFired |-> FALSE,
      points |-> 10, healing |-> FALSE, targetIndex |-> 0, hits |-> 0 ]

\* the listener of 'trigger-sonic-blast': the entities it deactivates
InBlast(o) ==
    /\ o.active
    /\ IsHazard(o.type)
    /\ o.z < Z(BLAST_BEHIND)
    /\ o.z > Z(BLAST_AHEAD)

\* a listener that flips the flag of every hazard in range
handleSonicBlast_Toggles(objs) ==
    [i \in 1 .. Len(objs) |->
        IF IsHazard(objs[i].type) /\ objs[i].z < Z(BLAST_BEHIND)
                                  /\ objs[i].z > Z(BLAST_AHEAD)
        THEN [objs[i] EXCEPT !.active = ~@] ELSE objs[i]]

handleSonicBlast(objs) ==
    [i \in 1 .. Len(objs) |->
        IF InBlast(objs[i]) THEN [objs[i] EXCEPT !.active = FALSE] ELSE objs[i]]

\* the ids of a sequence of entities, in order
Ids(objs) == [i \in 1 .. Len(objs) |-> objs[i].id]

\* a scan that takes the last hazard at the least distance
RECURSIVE DroneScan_LastOnTies(_, _, _, _)
DroneScan_LastOnTies(objs, i, targetObj, minDist) ==
    IF i > Len(objs) THEN targetObj
    ELSE LET o == objs[i]
             d == Abs(o.z - PlayerZ)
         IN  IF /\ o.active
                /\ IsHazard(o.type)
                /\ o.z < PlayerZ
                /\ o.z > PlayerZ - Z(DRONE_RANGE)
                /\ d <= minDist
             THEN DroneScan_LastOnTies(objs, i + 1, i, d)
             ELSE DroneScan_LastOnTies(objs, i + 1, targetObj, minDist)

\* the drone's scan: the index of the first hazard at the least distance
\* among the active hazards less than DRONE_RANGE ahead, or 0
RECURSIVE DroneScan(_, _, _, _)
DroneScan(objs, i, targetObj, minDist) ==
    IF i > Len(objs) THEN targetObj
    ELSE LET o == objs[i]
             d == Abs(o.z - PlayerZ)
         IN  IF /\ o.active
                /\ IsHazard(o.type)
                /\ o.z < PlayerZ
                /\ o.z > PlayerZ - Z(DRONE_RANGE)
                /\ d < minDist
             THEN DroneScan(objs, i + 1, i, d)
             ELSE DroneScan(objs, i + 1, targetObj, minDist)

\* the drone fires when it is owned and more than 2 s have passed
DroneReady(st, rf, time) ==
    st.hasDrone /\ time - rf.lastDroneFire > DRONE_INTERVAL

DroneTarget(st, rf, objs, time) ==
    IF DroneReady(st, rf, time)
    THEN DroneScan(objs, 1, 0, Z(DRONE_MIN_DIST))
    ELSE 0

\* the vertical test of a hazard against the player at height py
IsHit(o, py) ==
    LET objBottom == IF o.type = "OBSTACLE" THEN 0
                     ELSE IF o.type = "MISSILE" THEN 5
                     ELSE o.y - 5
        objTop == IF o.type = "OBSTACLE" THEN OBSTACLE_HEIGHT
                  ELSE IF o.type = "MISSILE" THEN 15
                  ELSE o.y + 5
    IN  py < objTop /\ py + PLAYER_HEIGHT > objBottom

\* a point test: the position after the move is inside the window
InZZone_PointTest(prevZ, z) ==
    Abs(z - PlayerZ) < Z(Z_THRESHOLD)

\* the swept window of the collision test
InZZone(prevZ, z) ==
    prevZ < PlayerZ + Z(Z_THRESHOLD) /\ z > PlayerZ - Z(Z_THRESHOLD)

\* the tick's travel in steps for a delta in fortieths of a second
SafeDelta(delta) == Min(delta, MAX_DELTA)
Dist(st, delta) ==
    IF st.isTimeWarpActive THEN st.speed * SafeDelta(delta)
    ELSE 2 * st.speed * SafeDelta(delta)
MissileBonus(st, delta) ==
    IF st.isTimeWarpActive THEN MISSILE_SPEED * SafeDelta(delta)
    ELSE 2 * MISSILE_SPEED * SafeDelta(delta)

\* an alien that fires at every tick past the trigger
Fires_NoLatch(o, z) ==
    /\ o.type = "ALIEN"
    /\ o.active
    /\ z > Z(ALIEN_TRIGGER)

\* the alien's launch: active, not fired yet, and past the trigger at z
Fires(o, z) ==
    /\ o.type = "ALIEN"
    /\ o.active
    /\ ~o.hasFired
    /\ z > Z(ALIEN_TRIGGER)

\* the state openShop sets
ShopState(st) == Set(st, [status |-> "SHOP", isShopInvincible |-> TRUE])

\* the jump-assist scanner's window for one entity (ASSIST mode)
IsThreat(st, o, delta) ==
    LET reach == IF st.isTimeWarpActive THEN st.speed ELSE 2 * st.speed
    IN  /\ st.gameMode = "ASSIST"
        /\ o.active
        /\ IsHazard(o.type)
        /\ o.x = st.playerLane
        /\ o.z > 0 - 28 * reach
        /\ o.z < 0 - 10 * reach

\* One iteration of the tick's loop, for the entity at index i.  acc holds
\* the entities (mutated in place), the indices kept so far, the missiles
\* spawned, the store as the operations called so far have left it, the
\* number of revive timeouts armed, the next id and the events.  st0 is the
\* store the tick's closure has captured; the player is at lane px, height py.
Visit(acc, i, st0, delta, px, py) ==
    LET o0 == acc.objs[i]
        prevZ == o0.z
        z == prevZ + Dist(st0, delta)
                   + (IF o0.type = "MISSILE" THEN MissileBonus(st0, delta) ELSE 0)
        fires == Fires(o0, z)
        o1 == [o0 EXCEPT !.z = z, !.hasFired = @ \/ fires]
        missile == Entity(acc.nextId, "MISSILE", o1.x, 10, z + Z(MISSILE_OFFSET))
        a1 == [acc EXCEPT
                 !.objs[i] = o1,
                 !.threat = @ \/ IsThreat(st0, o1, delta),
                 !.spawns = IF fires THEN Append(@, missile) ELSE @,
                 !.nextId = IF fires THEN @ + 1 ELSE @,
                 !.evt.launched = IF fires THEN Append(@, o1.id) ELSE @,
                 !.evt.late = IF acc.evt.shop # <<>> THEN Append(@, o1.id) ELSE @]
        enters == /\ o1.active
                  /\ o1.type = "SHOP_PORTAL"
                  /\ Abs(z - PlayerZ) < Z(PORTAL_REACH)
        touches == /\ o1.active
                   /\ o1.type # "SHOP_PORTAL"
                   /\ InZZone(prevZ, z)
                   /\ o1.x = px
        hits == touches /\ IsHazard(o1.type) /\ IsHit(o1, py)
        picks == touches /\ ~IsHazard(o1.type) /\ Abs(o1.y - py) < 25
        revives == hits /\ Revives(a1.st)
        blasted == IF revives THEN handleSonicBlast(a1.objs) ELSE a1.objs
        a2 == IF enters THEN
                  [a1 EXCEPT !.st = ShopState(@),
                             !.objs[i].active = FALSE,
                             !.evt.shop = Append(@, o1.id)]
              ELSE IF hits THEN
                  [a1 EXCEPT !.st = DamageState(@),
                             !.armed = IF revives THEN @ + 1 ELSE @,
                             !.objs = [blasted EXCEPT ![i].active = FALSE,
                                                      ![i].hits = @ + 1],
                             !.evt.blasted =
                                 IF revives
                                 THEN @ \o Ids(SelectSeq(a1.objs, InBlast))
                                 ELSE @,
                             !.evt.hit = Append(@, o1.id)]
              ELSE IF picks THEN
                  [a1 EXCEPT !.st = IF o1.type = "GEM"
                                    THEN GemState(@, o1.points, o1.healing)
                                    ELSE LetterState(@, o1.targetIndex),
                             !.objs[i].active = FALSE,
                             !.evt.collected = Append(@, o1.id)]
              ELSE a1
        keep == ~enters /\ ~(z > Z(REMOVE_DISTANCE))
    IN  [a2 EXCEPT !.keep = IF keep THEN Append(@, i) ELSE @]

RECURSIVE Pass(_, _, _, _, _, _)
\* the loop over currentObjects, from index i on
Pass(acc, i, st0, delta, px, py) ==
    IF i > Len(acc.objs) THEN acc
    ELSE Pass(Visit(acc, i, st0, delta, px, py), i + 1, st0, delta, px, py)

RECURSIVE MinZ(_)
\* Math.min over the positions of a non-empty sequence
MinZ(objs) ==
    IF Len(objs) = 1 THEN objs[1].z
    ELSE Min(objs[1].z, MinZ(Tail(objs)))

IsStatic(o) == o.type # "MISSILE"

\* getRandomLane's range: the lanes of a track of laneCount lanes
Lanes(laneCount) == (0 - (laneCount \div 2)) .. (laneCount \div 2)

\* a row the spawner's draws can produce: gems and obstacles in lanes of the
\* track, and aliens from level 2 on
ValidRow(st0, row) ==
    \A k \in 1 .. Len(row) :
        /\ row[k][1] \in {"GEM", "OBSTACLE", "ALIEN"}
        /\ row[k][2] \in Lanes(st0.laneCount)
        /\ row[k][1] = "ALIEN" => st0.level >= 2

\* a planner that always spawns at the spawn distance
SpawnZ_NoGap(st0, kept) ==
    LET statics == SelectSeq(kept, IsStatic)
        furthestZ == IF statics # <<>> THEN MinZ(statics) ELSE Z(EMPTY_FRONTIER)
    IN  IF furthestZ > 0 - Z(SPAWN_DISTANCE)
        THEN <<0 - Z(SPAWN_DISTANCE)>>
        ELSE <<>>

\* where the spawner puts a new row, or <<>> when the frontier is far enough
SpawnZ(st0, kept) ==
    LET statics == SelectSeq(kept, IsStatic)
        furthestZ == IF statics # <<>> THEN MinZ(statics) ELSE Z(EMPTY_FRONTIER)
        minGap == Z(MIN_GAP) + 32 * st0.speed
    IN  IF furthestZ > 0 - Z(SPAWN_DISTANCE)
        THEN <<Min(furthestZ - minGap, 0 - Z(SPAWN_DISTANCE))>>
        ELSE <<>>

\* the entities of a row: templates <<type, lane, height>> placed at spawnZ
\* with ids from id on
RowAt(row, id, spawnZ) ==
    [k \in 1 .. Len(row) |->
        Entity(id + k - 1, row[k][1], row[k][2], row[k][3], spawnZ)]

\* the letter indices the spawner may choose: those not in collectedLetters
AvailableIndices(st0) ==
    {i \in 0 .. 5 : ~Includes(st0.collectedLetters, i)}

\* The spawner: the row it adds.  lane is getRandomLane's draw, index the
\* draw among the available letters and row the outcome of the other draws.
Spawn(st0, kept, distanceTraveled, nextLetterDistance, id, lane, index, row) ==
    LET at == SpawnZ(st0, kept)
    IN  IF at = <<>> THEN <<>>
        ELSE IF distanceTraveled >= nextLetterDistance THEN
            IF AvailableIndices(st0) # {}
            THEN <<[Entity(id, "LETTER", lane, 10, at[1])
                       EXCEPT !.targetIndex = index]>>
            ELSE <<Entity(id, "GEM", lane, 12, at[1])>>
        ELSE RowAt(row, id, at[1])

\* the letter branch of the spawner runs and spawns a letter
LetterSpawns(st0, kept, distanceTraveled, nextLetterDistance) ==
    /\ SpawnZ(st0, kept) # <<>>
    /\ distanceTraveled >= nextLetterDistance
    /\ AvailableIndices(st0) # {}

\* the state of the tick after its drone phase and its loop
AfterPass(st0, rf, objs, time, delta, px, py) ==
    LET targetObj == DroneTarget(st0, rf, objs, time)
        objs0 == IF targetObj > 0
                 THEN [objs EXCEPT ![targetObj].active = FALSE]
                 ELSE objs
        acc0 == [ objs |-> objs0, keep |-> <<>>, spawns |-> <<>>, st |-> st0,
                  armed |-> 0, nextId |-> rf.nextId, threat |-> FALSE,
                  evt |-> [NoEvents EXCEPT
                             !.shot = IF targetObj > 0
                                      THEN <<objs[targetObj].id>> ELSE <<>>] ]
    IN  Pass(acc0, 1, st0, delta, px, py)

\* a registry replace that keeps every entity of the pass
Kept_All(acc) == acc.objs \o acc.spawns

\* keptObjects after the loop, with the missiles spawned
Kept(acc) ==
    [k \in 1 .. Len(acc.keep) |-> acc.objs[acc.keep[k]]] \o acc.spawns

\* LevelManager useFrame: one simulation tick with frame time delta, the
\* player at lane px and height py, and the spawner's draws
useFrame(delta, px, py, lane, index, row) ==
    LET acc == AfterPass(s, refs, objects, now, delta, px, py)
        kept == Kept(acc)
        distanceTraveled == refs.distanceTraveled + Dist(s, delta)
        spawned == Spawn(s, kept, distanceTraveled, refs.nextLetterDistance,
                         acc.nextId, lane, index, row)
    IN  /\ lane \in Lanes(s.laneCount)
        /\ index \in AvailableIndices(s) \/ AvailableIndices(s) = {}
        /\ ValidRow(s, row)
        /\ IF s.status # "PLAYING" THEN
              /\ evt' = NoEvents
              /\ UNCHANGED <<s, objects, refs, timerVars, items>>
           ELSE
              /\ objects' = kept \o spawned
              /\ s' = Set(acc.st, [showJumpAlert |-> acc.threat])
              /\ immortalityTimers' =
                    IF acc.armed > 0
                    THEN immortalityTimers \cup {REVIVE_IMMORTALITY}
                    ELSE immortalityTimers
              /\ refs' = [refs EXCEPT
                    !.distanceTraveled = distanceTraveled,
                    !.nextLetterDistance =
                        IF LetterSpawns(s, kept, distanceTraveled, @)
                        THEN @ + getLetterInterval(s.level) ELSE @,
                    !.lastDroneFire = IF acc.evt.shot # <<>> THEN now ELSE @,
                    !.nextId = acc.nextId + Len(spawned)]
              /\ evt' = acc.evt
              /\ UNCHANGED <<timeWarpTimers, shopTimers, items>>

\* Probabilities and draws of Math.random() are in thousandths.
\* obstacleProb: min(0.6, 0.20 + level * 0.02), times 0.8 with the luck charm
obstacleProb(level, hasLuckCharm) ==
    LET baseObstacleProb == 200 + level * 20
        capped == Min(600, baseObstacleProb)
    IN  IF hasLuckCharm THEN (capped * 8) \div 10 ELSE capped

\* isObstacle for the draw u of Math.random()
isObstacle(st, u) == u < obstacleProb(st.level, st.hasLuckCharm)

\* the reset effect has seen the current status and level
EffectDone == refs.prevStatus = s.status /\ refs.prevLevel = s.level

AheadOfKeep(o) == o.z > Z(LEVEL_UP_KEEP)

\* LevelManager's effect on [status, level]: resets and level transitions
resetEffect ==
    LET isRestart == s.status = "PLAYING" /\ refs.prevStatus = "GAME_OVER"
        isMenuReset == s.status = "MENU"
        isLevelUp == s.level # refs.prevLevel /\ s.status = "PLAYING"
        isVictoryReset == s.status = "PLAYING" /\ refs.prevStatus = "VICTORY"
        seen == [refs EXCEPT !.prevStatus = s.status, !.prevLevel = s.level]
    IN  /\ IF isMenuReset \/ isRestart \/ isVictoryReset THEN
              /\ objects' = <<>>
              /\ refs' = [seen EXCEPT !.distanceTraveled = 0,
                                      !.nextLetterDistance = getLetterInterval(1),
                                      !.nextId = 1]
              /\ s' = Set(s, [showJumpAlert |-> FALSE])
           ELSE IF isLevelUp /\ s.level > 1 THEN
              /\ objects' = SelectSeq(objects, AheadOfKeep)
                              \o <<Entity(refs.nextId, "SHOP_PORTAL", 0, 0,
                                          Z(PORTAL_Z))>>
              /\ refs' = [seen EXCEPT
                    !.nextLetterDistance = refs.distanceTraveled
                        - Z(SPAWN_DISTANCE) + getLetterInterval(s.level),
                    !.nextId = @ + 1]
              /\ s' = s
           ELSE IF s.status \in {"GAME_OVER", "VICTORY"} THEN
              /\ objects' = objects
              /\ refs' = seen
              /\ s' = Set(s, [distance |-> refs.distanceTraveled \div Unit,
                              showJumpAlert |-> FALSE])
           ELSE
              /\ objects' = objects
              /\ refs' = seen
              /\ s' = s
        /\ evt' = NoEvents
        /\ UNCHANGED <<timerVars, items>>

---------------------------------------------------------------------------
(* The callers: the simulation tick (useFrame), the shop and the HUD.      *)
(* JavaScript runs one task at a time: while the tick's pass over the      *)
(* entities runs (frame), only the operations the pass invokes run; the    *)
(* user interface and the timeouts run between ticks.                      *)

\* no window is open
NoWindows == [closeShop |-> 0, immortality |-> 0, timeWarp |-> 0]

Init ==
    /\ s = InitialState
    /\ immortalityTimers = {}
    /\ timeWarpTimers = {}
    /\ shopTimers = {}
    /\ frame = FALSE
    /\ portal = FALSE
    /\ reviveWindow = 0
    /\ windows = NoWindows
    /\ now = Epoch
    /\ last = "init"
    /\ arg = <<>>
    /\ before = InitialState
    /\ returned = <<>>
    /\ objects = <<>>
    /\ refs = InitialRefs
    /\ evt = NoEvents
    /\ items = <<>>

\* LevelManager useFrame: the tick runs only while the status is PLAYING
BeginFrame ==
    /\ ~frame
    /\ s.status = "PLAYING"
    /\ frame' = TRUE
    /\ last' = "beginFrame"
    /\ arg' = <<>>
    /\ before' = s
    /\ returned' = <<>>
    /\ UNCHANGED worldVars
    /\ UNCHANGED <<s, timerVars, portal, reviveWindow, windows, now>>

EndFrame ==
    /\ frame
    /\ frame' = FALSE
    /\ last' = "endFrame"
    /\ arg' = <<>>
    /\ before' = s
    /\ returned' = <<>>
    /\ UNCHANGED worldVars
    /\ UNCHANGED <<s, timerVars, portal, reviveWindow, windows, now>>

\* a hazard hits the player: 'player-hit' is dispatched and takeDamage runs
Hit ==
    /\ frame
    /\ takeDamage
    /\ reviveWindow' = IF Revives(s) THEN REVIVE_IMMORTALITY ELSE reviveWindow
    /\ UNCHANGED <<windows, now>>
    /\ last' = "takeDamage"
    /\ arg' = <<>>
    /\ before' = s
    /\ returned' = <<>>
    /\ objects' = IF Revives(s) THEN handleSonicBlast(objects) ELSE objects
    /\ UNCHANGED <<refs, evt, items>>
    /\ UNCHANGED <<frame, portal>>

\* the player touches a gem
GemPickup(value, isHealing) ==
    /\ frame
    /\ s.gemsCollected < MaxGems
    /\ collectGem(value, isHealing)
    /\ last' = "collectGem"
    /\ arg' = <<value, isHealing>>
    /\ before' = s
    /\ returned' = <<>>
    /\ UNCHANGED worldVars
    /\ UNCHANGED <<frame, portal, reviveWindow, windows, now>>

\* the player touches a letter; a level-up leaves a shop portal ahead
LetterPickup(index) ==
    /\ frame
    /\ collectLetter(index)
    /\ portal' = IF s'.level # s.level THEN TRUE ELSE portal
    /\ last' = "collectLetter"
    /\ arg' = <<index>>
    /\ before' = s
    /\ returned' = <<>>
    /\ UNCHANGED worldVars
    /\ UNCHANGED <<frame, reviveWindow, windows, now>>

\* the player reaches the shop portal
PortalReached ==
    /\ frame
    /\ portal
    /\ openShop
    /\ portal' = FALSE
    /\ last' = "openShop"
    /\ arg' = <<>>
    /\ before' = s
    /\ returned' = <<>>
    /\ UNCHANGED worldVars
    /\ UNCHANGED <<frame, reviveWindow, windows, now>>

ChooseMode(mode) ==
    /\ ~frame
    /\ s.status = "MENU"
    /\ selectMode(mode)
    /\ last' = "selectMode"
    /\ arg' = <<mode>>
    /\ before' = s
    /\ returned' = <<>>
    /\ UNCHANGED worldVars
    /\ UNCHANGED <<frame, portal, reviveWindow, windows, now>>

\* the level-select buttons; the reset effect empties the registry
ChooseTarget(targetLevels) ==
    /\ ~frame
    /\ s.status = "LEVEL_SELECT"
    /\ startGame(targetLevels)
    /\ portal' = FALSE
    /\ reviveWindow' = 0
    /\ windows' = NoWindows
    /\ UNCHANGED now
    /\ last' = "startGame"
    /\ arg' = <<targetLevels>>
    /\ before' = s
    /\ returned' = <<>>
    /\ UNCHANGED worldVars
    /\ UNCHANGED frame

\* the button of the game-over and victory screens
Restart ==
    /\ ~frame
    /\ s.status \in {"GAME_OVER", "VICTORY"}
    /\ restartGame
    /\ portal' = FALSE
    /\ reviveWindow' = 0
    /\ windows' = NoWindows
    /\ UNCHANGED now
    /\ last' = "restartGame"
    /\ arg' = <<>>
    /\ before' = s
    /\ returned' = <<>>
    /\ UNCHANGED worldVars
    /\ UNCHANGED frame

ShopBuy(type, cost) ==
    /\ ~frame
    /\ s.status = "SHOP"
    /\ buyItem(type, cost)
    /\ last' = "buyItem"
    /\ arg' = <<type, cost>>
    /\ before' = s
    /\ returned' = <<BuyResult(s, type, cost)>>
    /\ UNCHANGED worldVars
    /\ UNCHANGED <<frame, portal, reviveWindow, windows, now>>

ShopClose ==
    /\ ~frame
    /\ s.status = "SHOP"
    /\ closeShop
    /\ last' = "closeShop"
    /\ arg' = <<>>
    /\ before' = s
    /\ returned' = <<>>
    /\ UNCHANGED worldVars
    /\ windows' = [windows EXCEPT !.closeShop = SHOP_GRACE]
    /\ UNCHANGED <<frame, portal, reviveWindow, now>>

\* a direct call of spendCurrency
Spend(amount) ==
    /\ ~frame
    /\ s.status = "SHOP"
    /\ spendCurrency(amount)
    /\ last' = "spendCurrency"
    /\ arg' = <<amount>>
    /\ before' = s
    /\ returned' = <<SpendResult(s, amount)>>
    /\ UNCHANGED worldVars
    /\ UNCHANGED <<frame, portal, reviveWindow, windows, now>>

\* ShopScreen mounts: its effect fills the items
ShopMount(list) ==
    /\ ~frame
    /\ s.status = "SHOP"
    /\ items = <<>>
    /\ list \in generateShopItems(s)
    /\ items' = list
    /\ last' = "generateShopItems"
    /\ arg' = <<>>
    /\ before' = s
    /\ returned' = <<list>>
    /\ UNCHANGED <<s, timerVars, objects, refs, evt>>
    /\ UNCHANGED <<frame, portal, reviveWindow, windows, now>>

\* the button of offer i is pressed
ItemBuy(i) ==
    /\ ~frame
    /\ s.status = "SHOP"
    /\ i \in DOMAIN items
    /\ ~isDisabled(s, items[i])
    /\ buyItem(items[i].id, finalCost(s, items[i]))
    /\ last' = "buyItem"
    /\ arg' = <<items[i].id, finalCost(s, items[i])>>
    /\ before' = s
    /\ returned' = <<BuyResult(s, items[i].id, finalCost(s, items[i]))>>
    /\ UNCHANGED worldVars
    /\ UNCHANGED <<frame, portal, reviveWindow, windows, now>>

\* handleRefresh: the button is disabled while currency < 100
Refresh(list) ==
    /\ ~frame
    /\ s.status = "SHOP"
    /\ s.currency >= REFRESH_FEE
    /\ spendCurrency(REFRESH_FEE)
    /\ list \in generateShopItems(SpendState(s, REFRESH_FEE))
    /\ items' = IF SpendResult(s, REFRESH_FEE) THEN list ELSE items
    /\ last' = "handleRefresh"
    /\ arg' = <<REFRESH_FEE>>
    /\ before' = s
    /\ returned' = <<>>
    /\ UNCHANGED <<objects, refs, evt>>
    /\ UNCHANGED <<frame, portal, reviveWindow, windows, now>>

\* handleBuyAll
BuyAll ==
    /\ ~frame
    /\ s.status = "SHOP"
    /\ s' = BuyAllState(s, items)
    /\ last' = "handleBuyAll"
    /\ arg' = items
    /\ before' = s
    /\ returned' = <<>>
    /\ UNCHANGED timerVars
    /\ UNCHANGED worldVars
    /\ UNCHANGED <<frame, portal, reviveWindow, windows, now>>

ImmortalityKey ==
    /\ ~frame
    /\ s.status = "PLAYING"
    /\ activateImmortality
    /\ last' = "activateImmortality"
    /\ arg' = <<>>
    /\ before' = s
    /\ returned' = <<>>
    /\ UNCHANGED worldVars
    /\ windows' = IF s.hasImmortality /\ ~s.isImmortalityActive
                THEN [windows EXCEPT !.immortality = ABILITY_WINDOW]
                ELSE windows
    /\ UNCHANGED <<frame, portal, reviveWindow, now>>

TimeWarpKey ==
    /\ ~frame
    /\ s.status = "PLAYING"
    /\ activateTimeWarp
    /\ last' = "activateTimeWarp"
    /\ arg' = <<>>
    /\ before' = s
    /\ returned' = <<>>
    /\ UNCHANGED worldVars
    /\ windows' = IF s.hasTimeWarp /\ ~s.isTimeWarpActive
                THEN [windows EXCEPT !.timeWarp = ABILITY_WINDOW]
                ELSE windows
    /\ UNCHANGED <<frame, portal, reviveWindow, now>>

\* a timeout whose delay has elapsed runs
Timeout ==
    /\ ~frame
    /\ ImmortalityTimeout(0) \/ TimeWarpTimeout(0) \/ ShopTimeout(0)
    /\ last' = "timeout"
    /\ arg' = <<>>
    /\ before' = s
    /\ returned' = <<>>
    /\ UNCHANGED worldVars
    /\ UNCHANGED <<frame, portal, reviveWindow, windows, now>>

\* delays abstracted: a pending timeout runs at some point between two tasks
TimeoutLater ==
    /\ ~frame
    /\ \/ \E t \in immortalityTimers : ImmortalityTimeout(t)
       \/ \E t \in timeWarpTimers : TimeWarpTimeout(t)
       \/ \E t \in shopTimers : ShopTimeout(t)
    /\ last' = "timeout"
    /\ arg' = <<>>
    /\ before' = s
    /\ returned' = <<>>
    /\ UNCHANGED worldVars
    /\ UNCHANGED <<frame, portal, reviveWindow, windows, now>>

\* one second of the timeouts' delays, in the specifications whose
\* operations do not read the wall clock
Clock ==
    /\ ~frame
    /\ TimePasses
    /\ reviveWindow' = IF reviveWindow > 0 THEN reviveWindow - 1 ELSE 0
    /\ windows' = [w \in DOMAIN windows |->
                       IF windows[w] > 0 THEN windows[w] - 1 ELSE 0]
    /\ UNCHANGED now
    /\ last' = "clock"
    /\ arg' = <<>>
    /\ before' = s
    /\ returned' = <<>>
    /\ UNCHANGED worldVars
    /\ UNCHANGED <<frame, portal>>

\* one second of the timeouts' delays and of the wall clock, in the
\* specification whose operations read the wall clock
WallClock ==
    /\ ~frame
    /\ now < Epoch + MaxTime * 1000
    /\ TimePasses
    /\ reviveWindow' = IF reviveWindow > 0 THEN reviveWindow - 1 ELSE 0
    /\ windows' = [w \in DOMAIN windows |->
                       IF windows[w] > 0 THEN windows[w] - 1 ELSE 0]
    /\ now' = now + 1000
    /\ last' = "clock"
    /\ arg' = <<>>
    /\ before' = s
    /\ returned' = <<>>
    /\ UNCHANGED worldVars
    /\ UNCHANGED <<frame, portal>>

\* the HUD's sonic blast button (handleSonicBlast): a blast that fires
\* dispatches 'trigger-sonic-blast', whose listener runs at once
SonicKey ==
    /\ ~frame
    /\ s.status = "PLAYING"
    /\ triggerSonicBlast
    /\ last' = "triggerSonicBlast"
    /\ arg' = <<>>
    /\ before' = s
    /\ returned' = <<SonicResult(s, now)>>
    /\ objects' = IF SonicResult(s, now) THEN handleSonicBlast(objects)
                  ELSE objects
    /\ evt' = [NoEvents EXCEPT
                  !.blasted = IF SonicResult(s, now)
                              THEN Ids(SelectSeq(objects, InBlast)) ELSE <<>>]
    /\ UNCHANGED <<refs, items>>
    /\ UNCHANGED <<frame, portal, reviveWindow, windows, now>>

\* one simulation tick, between two tasks
Tick(delta, px, py, lane, index, row) ==
    /\ ~frame
    /\ EffectDone
    /\ useFrame(delta, px, py, lane, index, row)
    /\ reviveWindow' =
          IF /\ s.status = "PLAYING"
             /\ AfterPass(s, refs, objects, now, delta, px, py).armed > 0
          THEN REVIVE_IMMORTALITY ELSE reviveWindow
    /\ last' = "tick"
    /\ arg' = <<delta, px, py>>
    /\ before' = s
    /\ returned' = <<>>
    /\ UNCHANGED <<frame, portal, windows, now>>

\* the reset effect runs after a render that changed the status or the level
Effect ==
    /\ ~frame
    /\ ~EffectDone
    /\ resetEffect
    /\ last' = "effect"
    /\ arg' = <<>>
    /\ before' = s
    /\ returned' = <<>>
    /\ UNCHANGED <<frame, portal, reviveWindow, windows, now>>

\* the spawner's draw between the obstacle path and the gem path, on its
\* own: the draw u of Math.random() against obstacleProb
Roll(u) ==
    /\ ~frame
    /\ s.status = "PLAYING"
    /\ last' = "roll"
    /\ arg' = <<u>>
    /\ before' = s
    /\ returned' = <<isObstacle(s, u)>>
    /\ UNCHANGED worldVars
    /\ UNCHANGED <<s, timerVars, frame, portal, reviveWindow, windows, now>>

\* the letters in ascending order, and any collected one again
InOrder == {i \in LetterIndices : i <= Len(s.collectedLetters)}

\* the letters in ascending order only
Ascending == {i \in LetterIndices : i = Len(s.collectedLetters)}

\* collecting the letter keeps the run within the model's levels
Within(index, maxLevel) == LetterState(s, index).level <= maxLevel

\* Damage, shields, the revive, the shop and the immunities.  Gems only earn
\* the prices; the timeouts' delays are abstracted (TimeoutLater).
Next ==
    \/ BeginFrame
    \/ EndFrame
    \/ Hit
    \/ s.gemsCollected < MaxFunds /\ GemPickup(10, FALSE)
    \/ \E index \in Ascending : Within(index, MaxLevel) /\ LetterPickup(index)
    \/ PortalReached
    \/ \E mode \in {"NORMAL", "CHEAT"} : ChooseMode(mode)
    \/ \E targetLevels \in {2, Infinity} : ChooseTarget(targetLevels)
    \/ Restart
    \/ \E type \in ItemTypes, cost \in Costs : ShopBuy(type, cost)
    \/ ShopClose
    \/ ImmortalityKey
    \/ TimeoutLater

Spec == Init /\ [][Next]_vars

\* The timed flags with their delays, in a run of two levels.
NextTimed ==
    \/ BeginFrame
    \/ EndFrame
    \/ Hit
    \/ s.gemsCollected < MaxFunds /\ GemPickup(10, FALSE)
    \/ \E index \in Ascending : Within(index, MaxLevel) /\ LetterPickup(index)
    \/ PortalReached
    \/ ChooseMode("NORMAL")
    \/ ChooseTarget(2)
    \/ Cardinality(immortalityTimers) + Cardinality(shopTimers) <= MaxStale /\ Restart
    \/ \E type \in {"REVIVE", "IMMORTAL"}, cost \in Costs : ShopBuy(type, cost)
    \/ ShopClose
    \/ ImmortalityKey
    \/ Timeout
    \/ Clock

SpecTimed == Init /\ [][NextTimed]_vars

\* A run through its levels: gems of every value, healing or not, letters in
\* ascending order, damage and restarts.
NextRun ==
    \/ BeginFrame
    \/ EndFrame
    \/ Hit
    \/ \E value \in GemValues, isHealing \in BOOLEAN : GemPickup(value, isHealing)
    \/ \E index \in InOrder : Within(index, MaxDeepLevel) /\ LetterPickup(index)
    \/ \E mode \in {"NORMAL", "CHEAT"} : ChooseMode(mode)
    \/ \E targetLevels \in TargetChoices : ChooseTarget(targetLevels)
    \/ Restart

SpecRun == Init /\ [][NextRun]_vars

\* Letters in every order, with damage and restarts in between.
NextLetters ==
    \/ BeginFrame
    \/ EndFrame
    \/ Hit
    \/ \E index \in LetterIndices : Within(index, MaxLevel) /\ LetterPickup(index)
    \/ ChooseMode("NORMAL")
    \/ \E targetLevels \in {2, Infinity} : ChooseTarget(targetLevels)
    \/ Restart

SpecLetters == Init /\ [][NextLetters]_vars

\* the level whose start puts the first shop portal ahead of the player
FirstShopLevel == 2

\* the currency a run has spent beyond what it has earned
Overspent(st) == StartState(st, st.targetLevels).currency - st.currency

\* a call of buyItem that keeps the run within the model's spending; a call
\* that buys nothing always does
BuyWithin(type, cost) ==
    \/ ~BuyResult(s, type, cost)
    \/ Overspent(BuyState(s, type, cost)) <= MaxSpend

\* The first shop of a run: the play that leads to its portal, with the hits
\* the player survives, and then buyItem with every type and several costs,
\* in any sequence (the buttons and the buy-all loop).
NextShop ==
    \/ s.level < FirstShopLevel /\ BeginFrame
    \/ EndFrame
    \/ s.lives > 1 /\ Hit
    \/ s.level < FirstShopLevel /\ s.gemsCollected < MaxFunds /\ GemPickup(10, FALSE)
    \/ \E index \in Ascending : s.level < FirstShopLevel /\ LetterPickup(index)
    \/ PortalReached
    \/ \E mode \in {"NORMAL", "CHEAT"} : ChooseMode(mode)
    \/ ChooseTarget(Infinity)
    \/ \E type \in ShopTypes, cost \in ShopCosts :
          BuyWithin(type, cost) /\ ShopBuy(type, cost)

SpecShop == Init /\ [][NextShop]_vars

---------------------------------------------------------------------------
(* takeDamage *)

\* C1: takeDamage under CHEAT mode, active immortality or the shop's
\* invincibility changes no field of the store.
C1_ImmuneDamageChangesNothing ==
    ( /\ last = "takeDamage"
      /\ \/ before.gameMode = "CHEAT"
         \/ before.isImmortalityActive
         \/ before.isShopInvincible )
    => s = before

\* a hit on the last life, inside the grace period after the shop
C1_Witness ==
    /\ last = "takeDamage"
    /\ before.gameMode = "NORMAL"
    /\ before.isShopInvincible
    /\ ~before.isImmortalityActive
    /\ before.lives = 1
    /\ before.shieldCount = 0
    /\ s.status = "PLAYING"

\* C2: a takeDamage without immunity and with a shield held removes exactly
\* one shield and changes nothing else: no life and no revive charge is used.
C2_ShieldAbsorbsHit ==
    ( /\ last = "takeDamage"
      /\ before.gameMode # "CHEAT"
      /\ ~before.isImmortalityActive
      /\ ~before.isShopInvincible
      /\ before.shieldCount > 0 )
    => s = [before EXCEPT !.shieldCount = before.shieldCount - 1]

\* a shield absorbs the hit that would have taken the last life
C2_Witness ==
    /\ last = "takeDamage"
    /\ before.gameMode = "NORMAL"
    /\ ~before.isImmortalityActive
    /\ ~before.isShopInvincible
    /\ before.shieldCount = 1
    /\ before.lives = 1
    /\ s.shieldCount = 0
    /\ s.lives = 1

\* C3 (as claimed): after takeDamage has used the revive charge, the
\* immortality flag stays set for the 3 seconds that follow.
C3_ImmortalForThreeSeconds ==
    reviveWindow > 0 => s.isImmortalityActive

\* C3, the revive itself: lives are refilled, the charge is gone, the flag is
\* set and nothing else changes.
C3_ReviveRefillsLives ==
    ( /\ last = "takeDamage"
      /\ before.gameMode # "CHEAT"
      /\ ~before.isImmortalityActive
      /\ ~before.isShopInvincible
      /\ before.shieldCount = 0
      /\ before.lives = 1
      /\ before.hasRevive )
    => s = [before EXCEPT !.lives = before.maxLives,
                          !.hasRevive = FALSE,
                          !.isImmortalityActive = TRUE]

\* C4: a takeDamage on the last life with no shield, no revive charge and no
\* immunity sets lives and speed to 0 and ends the run: as VICTORY in an
\* endless run, as GAME_OVER otherwise; nothing else changes.
C4_LastLifeEndsRun ==
    ( /\ last = "takeDamage"
      /\ before.gameMode # "CHEAT"
      /\ ~before.isImmortalityActive
      /\ ~before.isShopInvincible
      /\ before.shieldCount = 0
      /\ before.lives = 1
      /\ ~before.hasRevive )
    => s = [before EXCEPT
              !.lives = 0,
              !.speed = 0,
              !.status = IF before.targetLevels = Infinity
                         THEN "VICTORY" ELSE "GAME_OVER"]

\* C4: in an endless run no takeDamage turns the status into GAME_OVER
C4_EndlessNeverGameOver ==
    ( /\ last = "takeDamage"
      /\ before.targetLevels = Infinity
      /\ before.status # "GAME_OVER" )
    => s.status # "GAME_OVER"

\* C4: both parts
C4_DeathOnLastLife == C4_LastLifeEndsRun /\ C4_EndlessNeverGameOver

\* the last life of an endless run is lost
C4_Witness ==
    /\ last = "takeDamage"
    /\ before.targetLevels = Infinity
    /\ before.status = "PLAYING"
    /\ before.lives = 1
    /\ s.lives = 0
    /\ s.speed = 0
    /\ s.status = "VICTORY"

---------------------------------------------------------------------------
(* collectGem *)

\* the scaled value times five, before the division and the floor
FiveTimesScaled(value, st) ==
    value * (5 + (st.level - 1)) * (IF st.hasGemBooster THEN 2 ELSE 1)

C6_HealingGem ==
    last = "collectGem" =>
        LET F == FiveTimesScaled(arg[1], before) \div 5 IN
        /\ s.lives = IF arg[2] /\ before.lives < before.maxLives
                     THEN before.lives + 1 ELSE before.lives
        /\ s.currency = before.currency + F
        /\ s.score = before.score + 10 * F
        /\ s.gemsCollected = before.gemsCollected + 1

\* a healing gem at full life: the reward, and no life
C6_Witness ==
    /\ last = "collectGem"
    /\ arg[2]
    /\ before.lives = before.maxLives
    /\ s.lives = before.lives
    /\ s.currency > before.currency

---------------------------------------------------------------------------
(* collectLetter and advanceLevel *)

IsNewLetter == ~(\E i \in 1 .. Len(before.collectedLetters) :
                    before.collectedLetters[i] = arg[1])

\* 2.5% and 10% of the base run speed
LetterSpeedUp == RUN_SPEED_BASE \div 40
LevelSpeedUp == RUN_SPEED_BASE \div 10

\* C7 (as claimed): a collected index changes nothing; a new one is added to
\* the set and raises speed by exactly 2.5% of the base speed.
C7_LetterAddedSpeedUp ==
    last = "collectLetter" =>
        IF IsNewLetter
        THEN /\ s.collectedLetters = Append(before.collectedLetters, arg[1])
             /\ s.speed = before.speed + LetterSpeedUp
        ELSE s = before

\* C7 (amended): as claimed, unless the new index is the sixth and the level
\* advances: then the set is left empty and speed has risen by 12.5%.
C7_LetterAddedUnlessLevelUp ==
    last = "collectLetter" =>
        IF ~IsNewLetter THEN s = before
        ELSE IF s.level = before.level
        THEN /\ s.collectedLetters = Append(before.collectedLetters, arg[1])
             /\ s.speed = before.speed + LetterSpeedUp
        ELSE /\ Len(before.collectedLetters) = Len(GEMINI_TARGET) - 1
             /\ s.collectedLetters = <<>>
             /\ s.speed = before.speed + LetterSpeedUp + LevelSpeedUp

\* a third letter, out of order
C7_Witness ==
    /\ last = "collectLetter"
    /\ before.collectedLetters = <<4, 0>>
    /\ arg = <<2>>
    /\ s.collectedLetters = <<4, 0, 2>>
    /\ s.speed = before.speed + LetterSpeedUp

\* C8: the sixth distinct index advances the level, with the status PLAYING
\* and no bonus, in an endless run or below the target level; at the target
\* level it ends the run as VICTORY with 10000 points and the level unchanged.
C8_SixthLetter ==
    ( /\ last = "collectLetter"
      /\ IsNewLetter
      /\ Len(before.collectedLetters) = Len(GEMINI_TARGET) - 1 )
    => IF before.targetLevels = Infinity \/ before.level < before.targetLevels
       THEN /\ s.level = before.level + 1
            /\ s.status = "PLAYING"
            /\ s.score = before.score
       ELSE /\ s.status = "VICTORY"
            /\ s.level = before.level
            /\ s.score = before.score + 10000

\* the sixth letter of level 5 in a run of 5 levels
C8_Witness ==
    /\ last = "collectLetter"
    /\ before.targetLevels = 5
    /\ before.level = 5
    /\ before.status = "PLAYING"
    /\ Len(before.collectedLetters) = 5
    /\ s.status = "VICTORY"
    /\ s.score = before.score + 10000

\* C9: advanceLevel, entered from collectLetter after the sixth letter's own
\* 2.5%, adds 1 to level, sets laneCount to min(laneCount + 2, 9) (odd, at most
\* 9), adds 10% of the base speed, empties collectedLetters, sets the status
\* PLAYING and changes nothing else.
C9_AdvanceLevel ==
    ( last = "collectLetter" /\ s.level # before.level )
    => /\ s = [before EXCEPT
                 !.level = before.level + 1,
                 !.laneCount = IF before.laneCount + 2 > 9
                               THEN 9 ELSE before.laneCount + 2,
                 !.speed = (before.speed + LetterSpeedUp) + LevelSpeedUp,
                 !.collectedLetters = <<>>,
                 !.status = "PLAYING"]
       /\ s.laneCount % 2 = 1
       /\ s.laneCount <= 9

\* the level-up at which the cap holds the lane count at 9
C9_Witness ==
    /\ last = "collectLetter"
    /\ before.level = 4
    /\ before.laneCount = 9
    /\ s.level = 5
    /\ s.laneCount = 9
    /\ s.collectedLetters = <<>>

Distinct(seq) == \A i, j \in 1 .. Len(seq) : seq[i] = seq[j] => i = j

AdvanceLevelRan == last = "collectLetter" /\ s.level = before.level + 1
Emptied == before.collectedLetters # <<>> /\ s.collectedLetters = <<>>

\* C10 (as claimed): at most 6 letters, all distinct, and the set goes from
\* non-empty to empty exactly when advanceLevel runs.
C10_ClearedOnlyByAdvance ==
    /\ Len(s.collectedLetters) <= 6
    /\ Distinct(s.collectedLetters)
    /\ Emptied <=> AdvanceLevelRan

\* C10 (amended): ... exactly when advanceLevel, startGame or restartGame runs
\* on a non-empty set.
C10_ClearedByAdvanceOrStart ==
    /\ Len(s.collectedLetters) <= 6
    /\ Distinct(s.collectedLetters)
    /\ Emptied <=>
          /\ before.collectedLetters # <<>>
          /\ AdvanceLevelRan \/ last \in {"startGame", "restartGame"}

\* a restart empties a set of six letters
C10_Witness ==
    /\ last = "restartGame"
    /\ Len(before.collectedLetters) = 6
    /\ s.collectedLetters = <<>>

\* The counted items against their caps: free purchases in any sequence in
\* the first shop of a run, with the hits, deaths and restarts around it.
NextCaps ==
    \/ BeginFrame
    \/ EndFrame
    \/ Hit
    \/ \E index \in Ascending : s.level < FirstShopLevel /\ LetterPickup(index)
    \/ PortalReached
    \/ \E mode \in {"NORMAL", "CHEAT"} : ChooseMode(mode)
    \/ ChooseTarget(Infinity)
    \/ Restart
    \/ \E type \in CappedTypes, cost \in FreeCosts : ShopBuy(type, cost)
    \/ ShopClose
    \/ TimeoutLater

SpecCaps == Init /\ [][NextCaps]_vars

\* the timeouts that are pending
Pending ==
    Cardinality(immortalityTimers) + Cardinality(timeWarpTimers)
    + Cardinality(shopTimers)

\* The two abilities the player activates, with their delays: a CHEAT run
\* owns both from its start, a NORMAL run that buys nothing owns neither.
NextAbilities ==
    \/ BeginFrame
    \/ EndFrame
    \/ Hit
    \/ \E index \in Ascending : Within(index, MaxLevel) /\ LetterPickup(index)
    \/ PortalReached
    \/ \E mode \in {"NORMAL", "CHEAT"} : ChooseMode(mode)
    \/ ChooseTarget(2)
    \/ Pending <= MaxStale /\ Restart
    \/ ShopClose
    \/ ImmortalityKey
    \/ TimeWarpKey
    \/ Timeout
    \/ Clock

SpecAbilities == Init /\ [][NextAbilities]_vars

\* The sonic blast against the wall clock: owned from the start of a CHEAT
\* run, bought in the first shop of a NORMAL run.
NextSonic ==
    \/ BeginFrame
    \/ EndFrame
    \/ s.level < FirstShopLevel /\ s.gemsCollected < MaxFunds /\ GemPickup(10, FALSE)
    \/ \E index \in Ascending : s.level < FirstShopLevel /\ LetterPickup(index)
    \/ PortalReached
    \/ \E mode \in {"NORMAL", "CHEAT"} : ChooseMode(mode)
    \/ ChooseTarget(Infinity)
    \/ \E cost \in Costs : ShopBuy("SONIC_BLAST", cost)
    \/ ShopClose
    \/ SonicKey
    \/ Timeout
    \/ WallClock

SpecSonic == Init /\ [][NextSonic]_vars

---------------------------------------------------------------------------
(* buyItem *)

\* the flag that records a one-time ability
OwnedFlag ==
    [ DOUBLE_JUMP |-> "hasDoubleJump", IMMORTAL |-> "hasImmortality",
      TIME_WARP |-> "hasTimeWarp", GEM_BOOSTER |-> "hasGemBooster",
      LUCK_CHARM |-> "hasLuckCharm", SONIC_BLAST |-> "hasSonicBlast",
      DRONE |-> "hasDrone", REVIVE |-> "hasRevive", DISCOUNT |-> "hasDiscount" ]

\* the type is already owned or at its cap in the store before the call
OwnedOrCapped ==
    \/ arg[1] = "HEAL" /\ before.lives >= before.maxLives
    \/ arg[1] = "MAX_LIFE" /\ before.maxLives >= 10
    \/ arg[1] = "SHIELD" /\ before.shieldCount >= 3
    \/ arg[1] = "MAGNET" /\ before.magnetLevel >= 5
    \/ arg[1] \in DOMAIN OwnedFlag /\ before[OwnedFlag[arg[1]]]

Rejected == returned = <<FALSE>> /\ s = before

\* C11 (as claimed): buyItem returns false and changes nothing whenever the
\* type is already owned or at its cap, and whenever currency < cost.
C11_RejectedWhenBlockedOrShort ==
    ( last = "buyItem" /\ (OwnedOrCapped \/ before.currency < arg[2]) )
    => Rejected

\* C11 (amended): ... and, for a type other than EXCHANGE, whenever
\* currency < cost.
C11_RejectedUnlessExchange ==
    ( /\ last = "buyItem"
      /\ \/ OwnedOrCapped
         \/ arg[1] # "EXCHANGE" /\ before.currency < arg[2] )
    => Rejected

\* the eighth extra life, with the price in hand
C11_Witness ==
    /\ last = "buyItem"
    /\ arg[1] = "MAX_LIFE"
    /\ before.maxLives = 10
    /\ before.currency >= arg[2]
    /\ Rejected

\* C12: whatever is bought, in whatever order, and whatever the play in
\* between, magnetLevel stays in [0,5], shieldCount in [0,3] and maxLives
\* never exceeds 10.
C12_CountsWithinCaps ==
    /\ s.magnetLevel \in 0 .. 5
    /\ s.shieldCount \in 0 .. 3
    /\ s.maxLives <= 10

\* a further magnet is asked for with every count at its cap
C12_Witness ==
    /\ last = "buyItem"
    /\ arg[1] = "MAGNET"
    /\ before.gameMode = "NORMAL"
    /\ before.magnetLevel = 5
    /\ before.shieldCount = 3
    /\ before.maxLives = 10
    /\ s.magnetLevel = 5

\* C13: buyItem('EXCHANGE', cost) with currency c > 0 adds 100 * c to score,
\* sets currency to 0, changes nothing else and returns true, whatever the
\* cost (500 gives 50000); with currency 0 it returns false and changes
\* nothing.
C13_Exchange ==
    ( last = "buyItem" /\ arg[1] = "EXCHANGE" )
    => IF before.currency > 0
       THEN /\ returned = <<TRUE>>
            /\ s = [before EXCEPT !.score = before.score + 100 * before.currency,
                                  !.currency = 0]
       ELSE Rejected

\* an exchange of 10 at a cost of 20
C13_Witness ==
    /\ last = "buyItem"
    /\ arg = <<"EXCHANGE", 20>>
    /\ before.currency = 10
    /\ s.currency = 0
    /\ s.score = before.score + 1000
    /\ returned = <<TRUE>>

\* the field in which each item type is granted
ItemField ==
    [ HEAL |-> "lives", MAX_LIFE |-> "maxLives", SHIELD |-> "shieldCount",
      MAGNET |-> "magnetLevel" ] @@ OwnedFlag

\* the call debited exactly its cost, and granted its type's item
Debited == s.currency = before.currency - arg[2]
Granted == arg[1] \in DOMAIN ItemField /\ s[ItemField[arg[1]]] # before[ItemField[arg[1]]]

\* C14 (as claimed): for every type string but EXCHANGE and every cost,
\* buyItem returns true exactly when it debited the cost and granted the
\* type's item, and currency is never debited without an item being granted.
C14_TrueIffPurchased ==
    ( last = "buyItem" /\ arg[1] # "EXCHANGE" )
    => /\ returned = <<TRUE>> <=> (Debited /\ Granted)
       /\ s.currency # before.currency => Granted

\* C14, for the types of SHOP_ITEMS: the claim as it stands
C14_KnownTypes ==
    ( last = "buyItem" /\ arg[1] \in CappedTypes \cup OneTimeTypes )
    => /\ returned = <<TRUE>> <=> (Debited /\ Granted)
       /\ s.currency # before.currency => Granted
       /\ returned = <<FALSE>> => s = before

---------------------------------------------------------------------------
(* openShop and closeShop *)

\* C15 (as claimed): while the status is SHOP the shop's invincibility is set.
C15_InvincibleInShop ==
    s.status = "SHOP" => s.isShopInvincible

\* C16, the call itself: closeShop leaves the status PLAYING and the
\* invincibility set
C16_CloseShopSetsGrace ==
    last = "closeShop" => (s.status = "PLAYING" /\ s.isShopInvincible)

\* C16, the end of the window: in play, with the last closeShop's 3 seconds
\* over and no timeout due, the invincibility is cleared
C16_GraceEnds ==
    ( /\ s.status = "PLAYING"
      /\ windows.closeShop = 0
      /\ 0 \notin shopTimers )
    => ~s.isShopInvincible

\* C16 (as claimed): after closeShop the status is PLAYING and the
\* invincibility stays set for the 3 seconds that follow, whatever timeout an
\* earlier closeShop has left pending, and is cleared once they are over.
C16_GraceForThreeSeconds ==
    /\ C16_CloseShopSetsGrace
    /\ windows.closeShop > 0 => s.isShopInvincible
    /\ C16_GraceEnds

---------------------------------------------------------------------------
(* activateImmortality and activateTimeWarp *)

\* C17: activateImmortality without the ability, or with its window active,
\* changes neither the store nor the pending timeouts, and so does
\* activateTimeWarp: a second activation neither extends nor restarts the
\* window.
C17_NoOpActivation ==
    [][ ( \/ /\ last' = "activateImmortality"
             /\ ~s.hasImmortality \/ s.isImmortalityActive
          \/ /\ last' = "activateTimeWarp"
             /\ ~s.hasTimeWarp \/ s.isTimeWarpActive )
        => (s' = s /\ UNCHANGED timerVars) ]_vars

\* a second activation two seconds into the window
C17_Witness ==
    /\ last = "activateImmortality"
    /\ before.hasImmortality
    /\ before.isImmortalityActive
    /\ windows.immortality = 3
    /\ immortalityTimers = {3}
    /\ s = before

\* C18, the activation itself: with the ability owned and not active, the
\* call sets the flag and nothing else
C18_ActivationSetsFlag ==
    /\ ( last = "activateImmortality"
         /\ before.hasImmortality /\ ~before.isImmortalityActive )
       => s = [before EXCEPT !.isImmortalityActive = TRUE]
    /\ ( last = "activateTimeWarp"
         /\ before.hasTimeWarp /\ ~before.isTimeWarpActive )
       => s = [before EXCEPT !.isTimeWarpActive = TRUE]

\* C18, the end of the window: with the last activation's 5 seconds and the
\* last revive's 3 seconds over and no timeout due, the flag is cleared
C18_WindowEnds ==
    /\ ( windows.immortality = 0 /\ reviveWindow = 0
         /\ 0 \notin immortalityTimers ) => ~s.isImmortalityActive
    /\ ( windows.timeWarp = 0 /\ 0 \notin timeWarpTimers )
       => ~s.isTimeWarpActive

\* C18 (as claimed): after a successful activation the flag stays set for
\* the 5 seconds that follow, whatever timeout an earlier activation, a revive
\* or an earlier run has left pending, and is cleared once they are over.
C18_ActiveForFiveSeconds ==
    /\ C18_ActivationSetsFlag
    /\ windows.immortality > 0 => s.isImmortalityActive
    /\ windows.timeWarp > 0 => s.isTimeWarpActive
    /\ C18_WindowEnds

---------------------------------------------------------------------------
(* triggerSonicBlast *)

\* the time since the last use, at the call
SinceLastBlast == now - before.lastSonicBlastTime

Fired == returned = <<TRUE>> /\ s = [before EXCEPT !.lastSonicBlastTime = now]

\* C19 (as claimed): triggerSonicBlast returns true and records the time if
\* and only if the blast is owned and at least 15000 ms have passed since the
\* last use; otherwise it returns false and changes nothing.
C19_FiresFromFifteenSeconds ==
    last = "triggerSonicBlast" =>
        IF before.hasSonicBlast /\ SinceLastBlast >= 15000
        THEN Fired ELSE Rejected

\* C19, with the comparison of the code: more than 15000 ms
C19_FiresAfterFifteenSeconds ==
    last = "triggerSonicBlast" =>
        IF before.hasSonicBlast /\ SinceLastBlast > 15000
        THEN Fired ELSE Rejected

\* C19, the consequences: two uses within one run are at least 15 seconds
\* apart, and the first use after the purchase or the start succeeds
C19_ApartAndImmediate ==
    last = "triggerSonicBlast" =>
        /\ (returned = <<TRUE>> /\ before.lastSonicBlastTime # 0)
              => SinceLastBlast >= 15000
        /\ (before.hasSonicBlast /\ before.lastSonicBlastTime = 0) => Fired

---------------------------------------------------------------------------
(* The status *)

\* the edges of the status, and those of them that only a restart follows
StatusEdges ==
    { <<"MENU", "LEVEL_SELECT">>, <<"LEVEL_SELECT", "PLAYING">>,
      <<"PLAYING", "SHOP">>, <<"SHOP", "PLAYING">>,
      <<"PLAYING", "GAME_OVER">>, <<"PLAYING", "VICTORY">>,
      <<"GAME_OVER", "PLAYING">>, <<"VICTORY", "PLAYING">>,
      <<"GAME_OVER", "MENU">>, <<"VICTORY", "MENU">> }
RestartEdges == { <<"GAME_OVER", "PLAYING">>, <<"VICTORY", "PLAYING">> }

\* C20 (as claimed): every change of the status made by an operation follows
\* one of the edges, and GAME_OVER and VICTORY are left for PLAYING by
\* restartGame only.
C20_StatusFollowsEdges ==
    before.status # s.status =>
        /\ <<before.status, s.status>> \in StatusEdges
        /\ <<before.status, s.status>> \in RestartEdges => last = "restartGame"

\* C20, between ticks: an operation called while no tick is running follows
\* the edges
C20_EdgesBetweenTicks ==
    ( before.status # s.status /\ last \in {"selectMode", "startGame",
          "restartGame", "closeShop", "buyItem", "timeout"} )
    => /\ <<before.status, s.status>> \in StatusEdges
       /\ <<before.status, s.status>> \in RestartEdges => last = "restartGame"

---------------------------------------------------------------------------
(* startGame and restartGame *)

\* the store at the start of a run: the store's initial state with the run's
\* mode and target, the status PLAYING, the base speed and, in CHEAT mode,
\* the full wallet and every ability
FreshRun(mode, target) ==
    LET run == [InitialState EXCEPT !.status = "PLAYING", !.gameMode = mode,
                                    !.targetLevels = target,
                                    !.speed = RUN_SPEED_BASE]
    IN  IF mode # "CHEAT" THEN run
        ELSE [run EXCEPT !.currency = 9999999,
                         !.magnetLevel = 5, !.shieldCount = 3,
                         !.hasDoubleJump = TRUE, !.hasImmortality = TRUE,
                         !.hasTimeWarp = TRUE, !.hasGemBooster = TRUE,
                         !.hasLuckCharm = TRUE, !.hasSonicBlast = TRUE,
                         !.hasDrone = TRUE, !.hasRevive = TRUE,
                         !.hasDiscount = TRUE]

\* C21: startGame(n) leaves the store of a fresh run of n levels in the mode
\* chosen before, whatever the store held; restartGame leaves the fresh run
\* of the previous run's target and mode.
C21_StartResetsRun ==
    /\ last = "startGame" => s = FreshRun(before.gameMode, arg[1])
    /\ last = "restartGame" => s = FreshRun(before.gameMode, before.targetLevels)

\* a restart after a run that reached level 2, lost a life, earned a score
\* and bought a shield
C21_Witness ==
    /\ last = "restartGame"
    /\ before.gameMode = "NORMAL"
    /\ before.level > 1
    /\ before.lives = 0
    /\ before.score > 0
    /\ before.hasImmortality
    /\ before.targetLevels = 2

---------------------------------------------------------------------------
(* CHEAT mode *)

\* every one-time ability is owned
OwnsAll(st) ==
    /\ st.hasDoubleJump /\ st.hasImmortality /\ st.hasTimeWarp
    /\ st.hasGemBooster /\ st.hasLuckCharm /\ st.hasSonicBlast
    /\ st.hasDrone /\ st.hasRevive /\ st.hasDiscount

\* C22: a CHEAT run starts with magnetLevel 5, shieldCount 3 and every
\* one-time ability, and no operation within the run lowers lives or
\* shieldCount or sets the status GAME_OVER.
C22_CheatInvincible ==
    s.gameMode = "CHEAT" =>
        /\ last \in {"startGame", "restartGame"}
              => s.magnetLevel = 5 /\ s.shieldCount = 3 /\ OwnsAll(s)
        /\ last \notin {"selectMode", "startGame", "restartGame"}
              => /\ s.lives >= before.lives
                 /\ s.shieldCount >= before.shieldCount
        /\ s.status # "GAME_OVER"

\* a hazard hits the player of a CHEAT run
C22_Witness ==
    /\ last = "takeDamage"
    /\ before.gameMode = "CHEAT"
    /\ before.status = "PLAYING"
    /\ before.lives = 3
    /\ s.lives = 3

---------------------------------------------------------------------------
(* The world: specifications of the tick over the registry *)

\* frame times in fortieths of a second: a short frame, a frame at the
\* clamp and a hitch that the clamp cuts
Deltas == {1, 2, 4}
\* where the player is when an entity is within reach: in lane 0 or 1, on
\* the ground or at the top of a jump (height 2.0)
PlayerLanes == {0, 1}
PlayerHeights == {0, 20}
\* rows the spawner draws at level 1: an obstacle, a gem, two obstacles
WorldRows ==
    { <<<<"OBSTACLE", 0, 8>>>>,
      <<<<"GEM", 0, 12>>>>,
      <<<<"OBSTACLE", 0, 8>>, <<"OBSTACLE", 1, 8>>>> }

\* units SpecWorld lets a run travel
MaxDistance == 170
\* entities SpecWorld lets the registry hold
MaxObjects == 3
\* units ahead of the player from which on the frame time and the player's
\* position are drawn freely
CloseRange == 4

\* an active entity is about to reach the player
Close ==
    \E i \in 1 .. Len(objects) :
        /\ objects[i].active
        /\ objects[i].z > 0 - Z(CloseRange)
        /\ objects[i].z < Z(Z_THRESHOLD)

\* the least letter not collected: the spawner's draw in these specifications
NextIndex ==
    IF AvailableIndices(s) = {} THEN 0
    ELSE CHOOSE i \in AvailableIndices(s) : \A j \in AvailableIndices(s) : i <= j

\* the row fits the registry; the magnet's pull on gems (366-381) is left
\* out, so gems are drawn only while magnetLevel is 0
Fits(row) ==
    /\ Len(objects) + Len(row) <= MaxObjects
    /\ s.magnetLevel > 0 => \A k \in 1 .. Len(row) : row[k][1] # "GEM"

\* a tick of SpecWorld: away from the player frames are at the clamp and
\* the player runs in lane 0; the spawner draws a row whenever one fits
WorldTick ==
    \E delta \in Deltas, px \in PlayerLanes, py \in PlayerHeights,
       row \in WorldRows \cup {<<>>} :
        /\ refs.distanceTraveled < Z(MaxDistance)
        /\ Close \/ (delta = MAX_DELTA /\ px = 0 /\ py = 0)
        /\ IF row = <<>> THEN \A r \in WorldRows : ~Fits(r) ELSE Fits(row)
        /\ Tick(delta, px, py, 0, NextIndex, row)

\* a hazard the sonic blast would destroy is within the drone's range
Blastable ==
    \E i \in 1 .. Len(objects) :
        InBlast(objects[i]) /\ objects[i].z > 0 - Z(DRONE_RANGE)

\* the drone has a target and waits for its 2 s to pass
DroneWaits ==
    /\ s.hasDrone
    /\ s.status = "PLAYING"
    /\ ~DroneReady(s, refs, now)
    /\ DroneScan(objects, 1, 0, Z(DRONE_MIN_DIST)) > 0

\* Level 1 of a run: obstacles and gems come, the player meets or avoids
\* them; in CHEAT mode the drone shoots and the sonic blast is at hand.
NextWorld ==
    \/ Effect
    \/ EffectDone /\ \E mode \in {"NORMAL", "CHEAT"} : ChooseMode(mode)
    \/ EffectDone /\ ChooseTarget(2)
    \/ EffectDone /\ Restart
    \/ WorldTick
    \/ EffectDone /\ Blastable /\ SonicKey
    \/ EffectDone /\ DroneWaits /\ WallClock

SpecWorld == Init /\ [][NextWorld]_vars

---------------------------------------------------------------------------
(* The active flag *)

\* the entity of the registry objs that has the id, as a sequence of 0 or 1
WithId(objs, id) == SelectSeq(objs, LAMBDA o : o.id = id)

\* C23: no step (tick, drone shot, sonic blast, collision, reset) turns the
\* active flag of an entity of the registry from false to true.
C23_NeverReactivated ==
    [][ \A i \in 1 .. Len(objects), j \in 1 .. Len(objects') :
            (objects[i].id = objects'[j].id /\ ~objects[i].active)
                => ~objects'[j].active ]_vars

\* the drone has shot one obstacle of a row of two, and the sonic blast has
\* then destroyed the other: both stay in the registry, inactive
C23_Witness ==
    /\ last = "triggerSonicBlast"
    /\ returned = <<TRUE>>
    /\ evt.blasted # <<>>
    /\ \E i, j \in 1 .. Len(objects) :
          /\ i # j
          /\ ~objects[i].active /\ ~objects[j].active
          /\ objects[i].type = "OBSTACLE" /\ objects[j].type = "OBSTACLE"
          /\ objects[j].id \in {evt.blasted[k] : k \in 1 .. Len(evt.blasted)}
          /\ objects[i].id \notin {evt.blasted[k] : k \in 1 .. Len(evt.blasted)}

---------------------------------------------------------------------------
(* The drone *)

\* the entities the drone may shoot: active hazards ahead, within its range
DroneCandidates ==
    { i \in 1 .. Len(objects) :
        /\ objects[i].active
        /\ objects[i].type \in {"OBSTACLE", "ALIEN", "MISSILE"}
        /\ objects[i].z < PlayerZ
        /\ objects[i].z > PlayerZ - DRONE_RANGE * Unit }

\* the entity at index i is the nearest candidate, first in order on ties
NearestFirst(i) ==
    /\ i \in DroneCandidates
    /\ \A j \in DroneCandidates :
          /\ Abs(objects[i].z - PlayerZ) <= Abs(objects[j].z - PlayerZ)
          /\ Abs(objects[i].z - PlayerZ) = Abs(objects[j].z - PlayerZ) => i <= j

\* C30: with the drone owned a tick's drone shot deactivates at most one
\* entity, more than 2 s after the shot before; the victim is the nearest
\* active hazard less than 40 units ahead, the first in registry order on
\* ties; without such a hazard nothing is shot and the fire timer stays.
C30_DroneShot ==
    [][ last' = "tick" =>
          /\ Len(evt'.shot) <= 1
          /\ evt'.shot # <<>> =>
                /\ s.hasDrone
                /\ now - refs.lastDroneFire > DRONE_INTERVAL
                /\ refs'.lastDroneFire = now
                /\ \E i \in 1 .. Len(objects) :
                      /\ objects[i].id = evt'.shot[1]
                      /\ NearestFirst(i)
                      /\ \A j \in 1 .. Len(objects') :
                            objects'[j].id = objects[i].id => ~objects'[j].active
          /\ evt'.shot = <<>> => refs'.lastDroneFire = refs.lastDroneFire
          /\ DroneCandidates = {} => evt'.shot = <<>>
          /\ (s.status = "PLAYING" /\ s.hasDrone
                 /\ now - refs.lastDroneFire > DRONE_INTERVAL
                 /\ DroneCandidates # {}) => evt'.shot # <<>> ]_vars

\* the drone's second shot of a run, at a row of two obstacles side by
\* side: the first of the two is shot and the other is still active
C30_Witness ==
    /\ last = "tick"
    /\ s.hasDrone
    /\ evt.shot # <<>>
    /\ now > Epoch
    /\ refs.lastDroneFire = now
    /\ \E i, j \in 1 .. Len(objects) :
          /\ i < j
          /\ objects[i].id = evt.shot[1]
          /\ ~objects[i].active
          /\ objects[j].type = "OBSTACLE"
          /\ objects[j].active
          /\ objects[j].z = objects[i].z

---------------------------------------------------------------------------
(* The writers of the registry *)

\* C28: the registry (the entities' positions, their active flags and their
\* membership) changes only in a step of the simulation tick.
C28_OnlyTickWrites ==
    [][ objects' # objects => last' = "tick" ]_vars

---------------------------------------------------------------------------
(* Inactive entities *)

\* the ids of a sequence of events, as a set
IdSet(ids) == {ids[k] : k \in 1 .. Len(ids)}

\* the entities that caused a hit, a collection or a shop opening in the
\* step were in the registry, active and not shot by the drone in that step
ActorsWereActive ==
    \A id \in IdSet(evt'.hit) \cup IdSet(evt'.collected) \cup IdSet(evt'.shop) :
        /\ id \notin IdSet(evt'.shot)
        /\ \E i \in 1 .. Len(objects) : objects[i].id = id /\ objects[i].active

\* no entity that was active before the step is in the registry, inactive,
\* after it
DeactivatedAreGone ==
    \A i \in 1 .. Len(objects), j \in 1 .. Len(objects') :
        (objects[i].id = objects'[j].id /\ objects[i].active)
            => objects'[j].active

\* an inactive entity never causes a hit, a collection or a shop opening
C25_InactiveInert ==
    [][ last' = "tick" => ActorsWereActive ]_vars

\* C25: an inactive entity never causes a hit, a collection or a shop
\* opening, and an entity that a tick deactivates (hit, collection, drone
\* shot, portal) is not in the registry at the end of that tick.
C25_InertAndGone ==
    [][ last' = "tick" => ActorsWereActive /\ DeactivatedAreGone ]_vars

---------------------------------------------------------------------------
(* Level 2: the shop portal, aliens and their missiles *)

\* rows the spawner draws from level 2 on: one alien, two aliens side by side
AlienRows ==
    { <<<<"ALIEN", 0, 15>>>>,
      <<<<"ALIEN", 0, 15>>, <<"ALIEN", 1, 15>>>> }

\* units SpecAliens lets a run travel
MaxAlienDistance == 1250
\* entities SpecAliens lets the spawner fill the registry to
MaxAlienObjects == 4

\* a tick of level 1 in SpecAliens: frames at the clamp, the player runs
\* on the ground in lane 0, the spawner draws only the letters, in lane 0
CorridorTick ==
    /\ s.level = 1
    /\ Tick(MAX_DELTA, 0, 0, 0, NextIndex, <<>>)

\* a tick from level 2 on: the spawner draws aliens while they fit; the
\* frame time and the player's position are free when an entity is close
AlienTick ==
    \E delta \in Deltas, px \in PlayerLanes, py \in PlayerHeights,
       row \in AlienRows \cup {<<>>} :
        /\ s.level >= 2
        /\ refs.distanceTraveled < Z(MaxAlienDistance)
        /\ Close \/ (delta = MAX_DELTA /\ px = 0 /\ py = 0)
        /\ IF Len(objects) + 2 <= MaxAlienObjects THEN Len(row) = 2
           ELSE IF Len(objects) + 1 <= MaxAlienObjects THEN Len(row) = 1
           ELSE row = <<>>
        /\ Tick(delta, px, py, 0, NextIndex, row)

\* an alien that has not fired is in the range of the sonic blast
UnfiredInBlast ==
    \E i \in 1 .. Len(objects) :
        /\ InBlast(objects[i])
        /\ objects[i].type = "ALIEN"
        /\ ~objects[i].hasFired

\* A run to level 2 and through it: the letters of level 1, the portal and
\* the shop, then aliens that fire, hit the player or are blasted.
NextAliens ==
    \/ Effect
    \/ EffectDone /\ \E mode \in {"NORMAL", "CHEAT"} : ChooseMode(mode)
    \/ EffectDone /\ ChooseTarget(3)
    \/ CorridorTick
    \/ AlienTick
    \/ EffectDone /\ ShopClose
    \/ EffectDone /\ UnfiredInBlast /\ SonicKey

SpecAliens == Init /\ [][NextAliens]_vars

---------------------------------------------------------------------------
(* Aliens and their missiles *)

\* the aliens that launch in the step: in the registry, active when the
\* loop of the tick reaches them, not fired yet, and past the trigger
\* distance after the tick's move
Launching ==
    { i \in 1 .. Len(objects) :
        /\ last' = "tick"
        /\ s.status = "PLAYING"
        /\ objects[i].type = "ALIEN"
        /\ objects[i].active
        /\ ~objects[i].hasFired
        /\ objects[i].id \notin IdSet(evt'.shot) \cup IdSet(evt'.blasted)
        /\ \E j \in 1 .. Len(objects') :
              /\ objects'[j].id = objects[i].id
              /\ objects'[j].z > ALIEN_TRIGGER * Unit }

\* the missiles the step has added to the registry
NewMissiles ==
    { j \in 1 .. Len(objects') :
        /\ objects'[j].type = "MISSILE"
        /\ \A i \in 1 .. Len(objects) : objects[i].id # objects'[j].id }

\* C24: hasFired is a latch; an alien that is active, has not fired and is
\* past the trigger distance in a tick sets it in that tick and launches
\* exactly one missile, in its lane and 2 units in front of it; no other
\* missile ever appears, so an alien that has fired or is inactive launches
\* none.
C24_OneMissilePerAlien ==
    [][ /\ \A i \in 1 .. Len(objects), j \in 1 .. Len(objects') :
              (objects[i].id = objects'[j].id /\ objects[i].hasFired)
                  => objects'[j].hasFired
        /\ \A i \in Launching :
              /\ \E j \in 1 .. Len(objects') :
                    objects'[j].id = objects[i].id /\ objects'[j].hasFired
              /\ Cardinality({ m \in NewMissiles :
                    /\ objects'[m].x = objects[i].x
                    /\ \E j \in 1 .. Len(objects') :
                          /\ objects'[j].id = objects[i].id
                          /\ objects'[m].z = objects'[j].z + MISSILE_OFFSET * Unit
                    /\ objects'[m].active }) = 1
        /\ Cardinality(NewMissiles) = Cardinality(Launching) ]_vars

\* two aliens side by side have launched in the same tick: each has its
\* latch set and its missile is in the registry, in its lane
C24_Witness ==
    /\ last = "tick"
    /\ Len(evt.launched) = 2
    /\ \A k \in 1 .. 2 :
          \E i, m \in 1 .. Len(objects) :
              /\ objects[i].id = evt.launched[k]
              /\ objects[i].type = "ALIEN"
              /\ objects[i].hasFired
              /\ objects[m].type = "MISSILE"
              /\ objects[m].x = objects[i].x
              /\ objects[m].active

---------------------------------------------------------------------------
(* The tick outside PLAYING *)

\* a tick that finds a status other than PLAYING changes no entity, no
\* accumulator and nothing of the store
C29_NoOpOutsidePlaying ==
    [][ (last' = "tick" /\ s.status # "PLAYING") =>
            /\ objects' = objects
            /\ refs' = refs
            /\ s' = s ]_vars

\* C29: a tick outside PLAYING changes nothing, and once a portal has
\* opened the shop no further entity is moved or collided by that tick or
\* a later one until the status is PLAYING again.
C29_HaltsInShop ==
    [][ last' = "tick" =>
            /\ s.status # "PLAYING" =>
                  objects' = objects /\ refs' = refs /\ s' = s
            /\ evt'.shop # <<>> => evt'.late = <<>> ]_vars

---------------------------------------------------------------------------
(* High speed: a tick's travel is as long as the portal's window *)

\* rows the spawner draws in the fast part of SpecFast
FastRows ==
    { <<<<"OBSTACLE", 0, 8>>>>,
      <<<<"ALIEN", 0, 15>>>> }

\* units SpecFast lets a run travel
MaxFastDistance == 4850
\* entities SpecFast lets the spawner fill the registry to
MaxFastObjects == 3
\* units ahead of the player from which on SpecFast draws the frame time
\* and the player's position freely
FastCloseRange == 8

\* the travel of a tick at the clamp is at least the width of the window
\* of the portal's proximity test
Fast == Dist(s, MAX_DELTA) >= 2 * Z(PORTAL_REACH)

\* an active entity is less than FastCloseRange ahead of the player
FastClose ==
    \E i \in 1 .. Len(objects) :
        /\ objects[i].active
        /\ objects[i].z > 0 - Z(FastCloseRange)
        /\ objects[i].z < Z(Z_THRESHOLD)

\* a tick of the slow levels of SpecFast: frames at the clamp, the player
\* runs on the ground in lane 0, the spawner draws only the letters
SlowTick ==
    /\ ~Fast
    /\ Tick(MAX_DELTA, 0, 0, 0, NextIndex, <<>>)

\* a tick at high speed: the spawner draws a hazard while one fits
FastTick ==
    \E delta \in Deltas, px \in PlayerLanes, py \in PlayerHeights,
       row \in FastRows \cup {<<>>} :
        /\ Fast
        /\ refs.distanceTraveled < Z(MaxFastDistance)
        /\ FastClose \/ (delta = MAX_DELTA /\ px = 0 /\ py = 0)
        /\ (row = <<>>) = (Len(objects) + 1 > MaxFastObjects)
        /\ Tick(delta, px, py, 0, NextIndex, row)

\* An endless run up to the level at which a tick travels the width of the
\* portal's window, and on from there among obstacles and aliens.
NextFast ==
    \/ Effect
    \/ EffectDone /\ \E mode \in {"NORMAL", "CHEAT"} : ChooseMode(mode)
    \/ EffectDone /\ ChooseTarget(Infinity)
    \/ SlowTick
    \/ FastTick
    \/ EffectDone /\ ShopClose

SpecFast == Init /\ [][NextFast]_vars

---------------------------------------------------------------------------
(* Hits at any speed *)

\* the hazards that reach the player's collision window in the step: active
\* when the loop of the tick reaches them, in the player's lane, with
\* vertical overlap, ahead of the window before the tick's move and inside
\* or beyond it after
Crossing ==
    { i \in 1 .. Len(objects) :
        /\ last' = "tick"
        /\ s.status = "PLAYING"
        /\ objects[i].active
        /\ objects[i].type \in {"OBSTACLE", "ALIEN", "MISSILE"}
        /\ objects[i].id \notin IdSet(evt'.shot) \cup IdSet(evt'.blasted)
        /\ objects[i].x = arg'[2]
        /\ IsHit(objects[i], arg'[3])
        /\ objects[i].z <= PlayerZ - Z_THRESHOLD * Unit
        /\ \E j \in 1 .. Len(objects') :
              /\ objects'[j].id = objects[i].id
              /\ objects'[j].z > PlayerZ - Z_THRESHOLD * Unit }

\* C26: a hazard in the player's lane with vertical overlap that moves from
\* ahead of the collision window to inside or beyond it causes 'player-hit'
\* in that tick, whatever the speed and the frame time, and no hazard ever
\* causes it twice.
C26_HitExactlyOnce ==
    [][ /\ \A i \in Crossing :
              /\ objects[i].hits = 0
              /\ objects[i].id \in IdSet(evt'.hit)
              /\ \A j \in 1 .. Len(objects') :
                    objects'[j].id = objects[i].id =>
                        objects'[j].hits = 1 /\ ~objects'[j].active
        /\ \A j \in 1 .. Len(objects') : objects'[j].hits <= 1 ]_vars

\* an obstacle has gone from ahead of the window to beyond it within one
\* tick and has hit the player once
C26_Witness ==
    /\ last = "tick"
    /\ \E i \in 1 .. Len(objects) :
          /\ objects[i].type = "OBSTACLE"
          /\ objects[i].id \in IdSet(evt.hit)
          /\ objects[i].hits = 1
          /\ ~objects[i].active
          /\ objects[i].z >= PlayerZ + Z_THRESHOLD * Unit
          /\ objects[i].z - Dist(before, arg[1]) <= PlayerZ - Z_THRESHOLD * Unit

---------------------------------------------------------------------------
(* The portal at any speed *)

\* C27: a portal that reaches the player opens the shop once, whatever
\* the player's lane and height, and is deactivated and removed in that
\* tick; no tick leaves an active portal at or behind the player.
C27_PortalAlwaysOpens ==
    [][ last' = "tick" =>
          /\ \A id \in IdSet(evt'.shop) :
                /\ \E i \in 1 .. Len(objects) :
                      /\ objects[i].id = id
                      /\ objects[i].type = "SHOP_PORTAL"
                      /\ objects[i].active
                /\ \A j \in 1 .. Len(objects') : objects'[j].id # id
          /\ Len(evt'.shop) = Cardinality(IdSet(evt'.shop))
          /\ \A j \in 1 .. Len(objects') :
                (objects'[j].type = "SHOP_PORTAL" /\ objects'[j].active)
                    => objects'[j].z < PlayerZ ]_vars

\* what holds of the portal at every speed: the shop opens only for an
\* active portal, once, and that portal leaves the registry in that tick
C27_OpensOnceAndRemoved ==
    [][ last' = "tick" =>
          /\ \A id \in IdSet(evt'.shop) :
                /\ \E i \in 1 .. Len(objects) :
                      /\ objects[i].id = id
                      /\ objects[i].type = "SHOP_PORTAL"
                      /\ objects[i].active
                /\ \A j \in 1 .. Len(objects') : objects'[j].id # id
          /\ Len(evt'.shop) = Cardinality(IdSet(evt'.shop)) ]_vars

---------------------------------------------------------------------------
(* Eviction *)

\* C31: at the end of every tick run while PLAYING no entity of the
\* registry, active or not, is beyond the trailing removal boundary.
C31_NoneBeyondBoundary ==
    [][ (last' = "tick" /\ s.status = "PLAYING") =>
            \A j \in 1 .. Len(objects') :
                objects'[j].z <= REMOVE_DISTANCE * Unit ]_vars

\* the first entity of the run has been evicted, and the registry holds an
\* active and an inactive entity that have passed the player
C31_Witness ==
    /\ last = "tick"
    /\ before.status = "PLAYING"
    /\ objects # <<>>
    /\ \A i \in 1 .. Len(objects) : objects[i].id > 1
    /\ \E i, j \in 1 .. Len(objects) :
          /\ objects[i].active /\ objects[i].z > PlayerZ
          /\ ~objects[j].active /\ objects[j].z > PlayerZ

---------------------------------------------------------------------------
(* The spawn planner *)

\* the entities of the registry after the step that the step's pass has
\* kept, missiles apart: the entities the frontier is taken over
OldStatics ==
    { k \in 1 .. Len(objects') :
        /\ objects'[k].type # "MISSILE"
        /\ \E i \in 1 .. Len(objects) : objects[i].id = objects'[k].id }

\* the entities the planner has placed in the step
Placed ==
    { j \in 1 .. Len(objects') :
        /\ objects'[j].type # "MISSILE"
        /\ \A i \in 1 .. Len(objects) : objects[i].id # objects'[j].id }

\* the least gap between the frontier and a new batch: 12 + 0.4 * speed
MinGapAt(speed) == MIN_GAP * Unit + 32 * speed

\* C32: the planner places entities only when the frontier (the least
\* position over the non-missile entities, -20 without any) is nearer than
\* the spawn distance; the entities of one tick share one position, at or
\* beyond the spawn distance and at least 12 + 0.4 * speed beyond the
\* frontier, so that the new frontier is at or beyond the spawn distance
\* and no batch is closer than the minimum gap to the one before.
C32_SpawnPosition ==
    [][ (last' = "tick" /\ Placed # {}) =>
          /\ s.status = "PLAYING"
          /\ \A j, k \in Placed : objects'[j].z = objects'[k].z
          /\ \A j \in Placed :
                /\ objects'[j].z <= 0 - SPAWN_DISTANCE * Unit
                /\ \A k \in OldStatics :
                      objects'[j].z <= objects'[k].z - MinGapAt(s.speed)
                /\ OldStatics = {} =>
                      objects'[j].z <= EMPTY_FRONTIER * Unit - MinGapAt(s.speed)
          /\ \A k \in OldStatics : objects'[k].z > 0 - SPAWN_DISTANCE * Unit
          /\ \A k \in 1 .. Len(objects') :
                objects'[k].type # "MISSILE" =>
                    \E j \in Placed : objects'[j].z <= objects'[k].z ]_vars

\* a row of two has been placed beyond the spawn distance, exactly the
\* minimum gap beyond the entity that was the frontier
C32_Witness ==
    /\ last = "tick"
    /\ \E i, j, k \in 1 .. Len(objects) :
          /\ i # j
          /\ objects[i].id >= refs.nextId - 2
          /\ objects[j].id >= refs.nextId - 2
          /\ objects[i].z = objects[j].z
          /\ objects[i].z < 0 - SPAWN_DISTANCE * Unit
          /\ objects[k].type # "MISSILE"
          /\ objects[k].z - objects[i].z = MinGapAt(before.speed)

---------------------------------------------------------------------------
(* The letter spawn *)

\* rows of SpecRace: a gem in the lane next to the player's
RaceRows == { <<<<"GEM", 1, 12>>>> }

\* units SpecRace lets a run travel
MaxRaceDistance == 310
\* entities SpecRace lets the spawner fill the registry to
MaxRaceObjects == 3
\* units before the next letter checkpoint in which SpecRace draws rows
RaceWindow == 30

\* a tick of SpecRace: frames at the clamp, the player runs on the ground
\* in lane 0 and collects the letters; shortly before a letter is due the
\* spawner draws a gem or nothing, otherwise nothing
RaceTick ==
    \E row \in RaceRows \cup {<<>>} :
        /\ refs.distanceTraveled < Z(MaxRaceDistance)
        /\ Len(objects) + Len(row) <= MaxRaceObjects
        /\ row # <<>> =>
              refs.distanceTraveled >= refs.nextLetterDistance - Z(RaceWindow)
        /\ Tick(MAX_DELTA, 0, 0, 0, NextIndex, row)

\* The first letters of a run, with rows that delay the letter's spawn.
NextRace ==
    \/ Effect
    \/ EffectDone /\ ChooseMode("NORMAL")
    \/ EffectDone /\ ChooseTarget(3)
    \/ RaceTick

SpecRace == Init /\ [][NextRace]_vars

\* the planner runs in the step with a letter due
LetterDue ==
    /\ last' = "tick"
    /\ s.status = "PLAYING"
    /\ Placed # {}
    /\ refs'.distanceTraveled >= refs.nextLetterDistance

\* the planner, with a letter due, places one LETTER of an index that is
\* not among the letters of the store as the tick's closure has read it
C33_LetterOfSnapshot ==
    [][ LetterDue =>
          /\ Cardinality(Placed) = 1
          /\ \A j \in Placed :
                /\ objects'[j].type = "LETTER"
                /\ objects'[j].targetIndex \in 0 .. 5
                /\ objects'[j].targetIndex \notin IdSet(s.collectedLetters)
          /\ refs'.nextLetterDistance =
                refs.nextLetterDistance + getLetterInterval(s.level) ]_vars

\* C33: whenever the planner runs with a letter due, an index is still
\* uncollected and the planner places a LETTER of an index in 0..5 that is
\* not in collectedLetters, and advances the checkpoint; it never places
\* the fallback gem.
C33_LetterUncollected ==
    [][ LetterDue =>
          /\ Len(s'.collectedLetters) < 6
          /\ Cardinality(Placed) = 1
          /\ \A j \in Placed :
                /\ objects'[j].type = "LETTER"
                /\ objects'[j].targetIndex \in 0 .. 5
                /\ objects'[j].targetIndex \notin IdSet(s'.collectedLetters)
          /\ refs'.nextLetterDistance =
                refs.nextLetterDistance + getLetterInterval(s.level) ]_vars

---------------------------------------------------------------------------
(* The obstacle probability *)

\* levels SpecOdds lets a run reach
MaxOddsLevel == 21
\* the draws of Math.random(), in thousandths: every value that separates
\* two probabilities of the levels
Draws == { 4 * k : k \in 0 .. 249 }

\* An endless run through the levels by its letters, with the luck charm
\* (CHEAT) and without (NORMAL); at the start of each level the spawner
\* draws between the obstacle path and the gem path.
NextOdds ==
    \/ BeginFrame
    \/ EndFrame
    \/ \E index \in Ascending : Within(index, MaxOddsLevel) /\ LetterPickup(index)
    \/ \E mode \in {"NORMAL", "CHEAT"} : ChooseMode(mode)
    \/ ChooseTarget(Infinity)
    \/ \E u \in Draws : s.collectedLetters = <<>> /\ Roll(u)

SpecOdds == Init /\ [][NextOdds]_vars

\* the probability in thousandths that the code gives the obstacle path:
\* 20% plus 2% per level, level 1 included, at most 60%, times 0.8 with
\* the luck charm
OddsOfCode(level, charm) ==
    LET p == IF 200 + 20 * level < 600 THEN 200 + 20 * level ELSE 600
    IN  IF charm THEN (p * 4) \div 5 ELSE p

\* the probability in thousandths of the claim: 20% at level 1 plus 2% per
\* level above level 1, at most 60%, times 0.8 with the luck charm
OddsOfClaim(level, charm) ==
    LET p == IF 200 + 20 * (level - 1) < 600 THEN 200 + 20 * (level - 1) ELSE 600
    IN  IF charm THEN (p * 4) \div 5 ELSE p

\* the obstacle path is taken with 22% at level 1 and 2% more per level
C34_OddsFromLevelOne ==
    last = "roll" =>
        returned = <<arg[1] < OddsOfCode(s.level, s.hasLuckCharm)>>

\* C34: a non-letter spawn attempt takes the obstacle path with probability
\* min(60%, 20% + 2% per level above level 1), 20% at level 1, times 0.8
\* with the luck charm.
C34_ObstacleOdds ==
    last = "roll" =>
        returned = <<arg[1] < OddsOfClaim(s.level, s.hasLuckCharm)>>

---------------------------------------------------------------------------
(* Lives *)

\* buyItem's types in SpecLives: those that change lives and maxLives
LifeTypes == {"HEAL", "MAX_LIFE", "REVIVE"}
\* healing gems SpecLives lets a run collect
MaxHealGems == 1

\* Hits, healing gems, the shop's life items at no cost, the revive, deaths
\* and restarts, in runs with a finite and an endless target.
NextLives ==
    \/ BeginFrame
    \/ EndFrame
    \/ Hit
    \/ s.gemsCollected < MaxHealGems /\ GemPickup(10, TRUE)
    \/ \E index \in Ascending : s.level < FirstShopLevel /\ LetterPickup(index)
    \/ PortalReached
    \/ ChooseMode("NORMAL")
    \/ \E targetLevels \in {3, Infinity} : ChooseTarget(targetLevels)
    \/ Restart
    \/ \E type \in LifeTypes, cost \in FreeCosts : ShopBuy(type, cost)
    \/ ShopClose
    \/ TimeoutLater

SpecLives == Init /\ [][NextLives]_vars

\* C35: in every reachable state 0 <= lives <= maxLives and
\* 3 <= maxLives <= 10.
C35_LivesWithinBounds ==
    /\ 0 <= s.lives
    /\ s.lives <= s.maxLives
    /\ 3 <= s.maxLives
    /\ s.maxLives <= 10

\* the revive has refilled the lives of a run that had bought maxLives up
\* to its cap
C35_Witness ==
    /\ last = "takeDamage"
    /\ before.lives = 1
    /\ before.hasRevive
    /\ before.maxLives = 10
    /\ s.lives = 10
    /\ ~s.hasRevive

---------------------------------------------------------------------------
(* The wallet *)

\* gems SpecPurse lets a run collect
MaxPurseGems == 3
\* currency SpecPurse lets a CHEAT run spend of its 9999999 before it
\* exchanges the rest
MaxPurseSpend == 600

\* the items the shuffle puts on the shelf in SpecPurse
Stocked == {"HEAL", "SHIELD", "DOUBLE_JUMP", "MAX_LIFE"}
OnShelf(list) == \A i \in DOMAIN list : list[i].id \in Stocked \cup {"EXCHANGE"}

\* the types, costs and amounts of SpecPurse's direct calls
PurseTypes == {"SHIELD", "EXCHANGE", "UNKNOWN"}
PurseCosts == {0, 75}

PurseWithin(st) == st.currency = 0 \/ Overspent(st) <= MaxPurseSpend

NextPurse ==
    \/ s.level < FirstShopLevel /\ BeginFrame
    \/ EndFrame
    \/ s.lives > 2 /\ s.collectedLetters = <<>> /\ Hit
    \/ s.level < FirstShopLevel /\ s.gemsCollected < MaxPurseGems
          /\ s.collectedLetters = <<>> /\ GemPickup(150, FALSE)
    \/ \E index \in Ascending : s.level < FirstShopLevel /\ LetterPickup(index)
    \/ PortalReached
    \/ \E mode \in {"NORMAL", "CHEAT"} : ChooseMode(mode)
    \/ ChooseTarget(Infinity)
    \/ \E list \in generateShopItems(s) : OnShelf(list) /\ ShopMount(list)
    \/ \E i \in DOMAIN items :
          /\ PurseWithin(BuyState(s, items[i].id, finalCost(s, items[i])))
          /\ ItemBuy(i)
    \/ \E list \in generateShopItems(SpendState(s, REFRESH_FEE)) :
          /\ OnShelf(list)
          /\ PurseWithin(SpendState(s, REFRESH_FEE))
          /\ Refresh(list)
    \/ PurseWithin(BuyAllState(s, items)) /\ BuyAll
    \/ \E type \in PurseTypes, cost \in PurseCosts :
          PurseWithin(BuyState(s, type, cost)) /\ ShopBuy(type, cost)
    \/ \E amount \in PurseCosts :
          PurseWithin(SpendState(s, amount)) /\ Spend(amount)

SpecPurse == Init /\ [][NextPurse]_vars

\* a call that debited the wallet returned true and took its cost, or
\* exchanged the whole wallet
ExactDebit(st, st1, type, cost, result) ==
    st1.currency < st.currency =>
        /\ result
        /\ IF type = "EXCHANGE" THEN st1.currency = 0
           ELSE st1.currency = st.currency - cost

\* every round of a buy-all debits what its buyItem call was given
RECURSIVE BuyAllExact(_, _)
BuyAllExact(st, list) ==
    \/ list = <<>>
    \/ LET item == Head(list)
           cost == finalCost(st, item)
           st1 == BuyAllRound(st, item)
       IN  /\ st1.currency >= 0
           /\ ExactDebit(st, st1, item.id, cost,
                         BuyAllCalls(st, item) /\ BuyResult(st, item.id, cost))
           /\ BuyAllExact(st1, Tail(list))

\* C36: currency is never negative, and a collectGem, buyItem or
\* spendCurrency call (the shop's buttons, its refresh and its buy-all among
\* them) lowers it only by the exact cost of a purchase that succeeded, or
\* to 0 by an exchange.
C36_CurrencyNeverNegative ==
    [][ /\ s'.currency >= 0
        /\ last' = "collectGem" => s'.currency >= s.currency
        /\ last' = "buyItem" =>
              ExactDebit(s, s', arg'[1], arg'[2], returned' = <<TRUE>>)
        /\ last' \in {"spendCurrency", "handleRefresh"} =>
              ExactDebit(s, s', "", arg'[1],
                         last' = "handleRefresh" \/ returned' = <<TRUE>>)
        /\ last' = "handleBuyAll" => BuyAllExact(s, arg')
        /\ last' \in {"collectGem", "buyItem", "spendCurrency",
                      "handleRefresh", "handleBuyAll", "generateShopItems"}
           \/ s'.currency >= s.currency ]_vars

\* a buy-all has bought an offer at its discounted price and then exchanged
\* the rest of the wallet
C36_Witness ==
    /\ last = "handleBuyAll"
    /\ Len(arg) = 3
    /\ before.hasDiscount
    /\ arg[1].id = "MAX_LIFE"
    /\ arg[2].id = "EXCHANGE"
    /\ s.maxLives = before.maxLives + 1
    /\ s.currency = 0
    /\ s.score = before.score + (before.currency - 240) * 100

---------------------------------------------------------------------------
(* After the fatal hit *)

\* C37 (as claimed): while the status is PLAYING, lives >= 1 and speed > 0;
\* after a fatal takeDamage only startGame or restartGame puts the run back
\* into PLAYING or SHOP.
C37_PlayingIsAlive ==
    s.status = "PLAYING" => s.lives >= 1 /\ s.speed > 0

\* C37, between ticks: the operations called while no tick is running keep
\* a dead run out of PLAYING and SHOP
C37_AliveBetweenTicks ==
    [][ ( /\ ~frame
          /\ s.status \in {"PLAYING", "SHOP"} => s.lives >= 1 /\ s.speed > 0 )
        => ( s'.status \in {"PLAYING", "SHOP"} /\ ~frame'
             => s'.lives >= 1 /\ s'.speed > 0 ) ]_vars

---------------------------------------------------------------------------
(* Levels and lanes *)

\* C38: in a run with a finite target N, 1 <= level <= N in every reachable
\* state; in every run laneCount = min(2 * level + 1, 9).
C38_LevelAndLanes ==
    /\ s.targetLevels # Infinity => 1 <= s.level /\ s.level <= s.targetLevels
    /\ s.laneCount = Min(2 * s.level + 1, 9)

\* the run has won at the last level of its finite target, past the level
\* at which the lanes met their cap
C38_Witness ==
    /\ last = "collectLetter"
    /\ s.targetLevels = 5
    /\ s.level = 5
    /\ s.status = "VICTORY"
    /\ before.status = "PLAYING"
    /\ s.laneCount = 9

---------------------------------------------------------------------------
(* The revive's blast *)

\* levels SpecRevive lets a run reach
MaxReviveLevel == 12
\* entities SpecRevive lets the spawner fill the registry to
MaxReviveObjects == 3

\* the active hazards of the registry
ActiveHazards ==
    Len(SelectSeq(objects, LAMBDA o : o.active /\ IsHazard(o.type)))

\* the spawner's draw on the way: at level 1 as many obstacles, in the
\* player's lane, as leave the run its last life; nothing after that
BruiseRow ==
    IF s.level = 1 /\ s.lives - ActiveHazards > 1
    THEN <<<<"OBSTACLE", 0, 8>>>> ELSE <<>>

\* at this speed an alien's missile flies from its launch to the player's
\* collision window in no more ticks than the alien behind it at the least
\* gap takes to reach its trigger
Outpaced ==
    MinGapAt(s.speed) * (Dist(s, MAX_DELTA) + MissileBonus(s, MAX_DELTA))
        >= (0 - Z(ALIEN_TRIGGER) - Z(MISSILE_OFFSET) - Z(Z_THRESHOLD))
              * Dist(s, MAX_DELTA)

\* a tick on the way: frames at the clamp, the player runs on the ground in
\* lane 0 through the obstacles and the letters
ApproachTick ==
    /\ ~Outpaced
    /\ s.level <= MaxReviveLevel
    /\ shopTimers = {}
    /\ Tick(MAX_DELTA, 0, 0, 0, NextIndex, BruiseRow)

\* a tick at speed: the spawner draws an alien, in the player's lane, while
\* one fits
ReviveTick ==
    /\ Outpaced
    /\ s.level <= MaxReviveLevel
    /\ shopTimers = {}
    /\ Tick(MAX_DELTA, 0, 0, 0, NextIndex,
            IF Len(objects) < MaxReviveObjects
            THEN <<<<"ALIEN", 0, 15>>>> ELSE <<>>)

\* An endless NORMAL run that loses two lives at level 1, takes the revive in
\* the first shop and runs on, the grace of each shop over before it moves,
\* to the speed at which missiles outpace the aliens behind them.
NextRevive ==
    \/ Effect
    \/ EffectDone /\ ChooseMode("NORMAL")
    \/ EffectDone /\ ChooseTarget(Infinity)
    \/ ApproachTick
    \/ ReviveTick
    \/ \E cost \in FreeCosts :
          EffectDone /\ s.level = FirstShopLevel /\ ~s.hasRevive
          /\ ShopBuy("REVIVE", cost)
    \/ EffectDone /\ (s.hasRevive \/ s.level > FirstShopLevel) /\ ShopClose
    \/ EffectDone /\ shopTimers # {} /\ TimeoutLater

SpecRevive == Init /\ [][NextRevive]_vars

\* the tick in which takeDamage consumes the revive charge
Reviving ==
    /\ last' = "tick"
    /\ s.status = "PLAYING"
    /\ s.hasRevive
    /\ ~s'.hasRevive

InRange(o) == o.z > Z(BLAST_AHEAD) /\ o.z < Z(BLAST_BEHIND)

\* the entity came into the range after the handler had run: it moved in
\* from beyond -150 later in the pass, or the spawner placed it at the end
\* of the tick
ArrivedLater(o) ==
    \/ \E i \in 1 .. Len(objects) :
          objects[i].id = o.id /\ objects[i].z <= Z(BLAST_AHEAD)
    \/ /\ o.type # "MISSILE"
       /\ \A i \in 1 .. Len(objects) : objects[i].id # o.id

\* C39 (as claimed): when takeDamage consumes the revive charge the blast
\* runs in the same step; after it no active OBSTACLE, ALIEN or MISSILE that
\* was there when the handler ran lies strictly between -150 and 5, the
\* gems, letters and portals are as they were, and lastSonicBlastTime is
\* unchanged.
C39_BlastClearsRange ==
    [][ Reviving =>
          /\ \A j \in 1 .. Len(objects') :
                ( /\ objects'[j].active
                  /\ IsHazard(objects'[j].type)
                  /\ InRange(objects'[j]) )
                => ArrivedLater(objects'[j])
          /\ \A i \in 1 .. Len(objects), j \in 1 .. Len(objects') :
                ( /\ objects[i].id = objects'[j].id
                  /\ ~IsHazard(objects[i].type)
                  /\ \A k \in 1 .. Len(evt'.collected) :
                        evt'.collected[k] # objects[i].id )
                => objects'[j].active = objects[i].active
          /\ s'.lastSonicBlastTime = s.lastSonicBlastTime ]_vars

\* C39, for the registry: the handler deactivates the hazards of
\* objectsRef.current that are in range when it runs, and nothing else
C39_RegistryBlasted ==
    [][ Reviving =>
          /\ evt'.blasted # <<>>
          /\ \A j \in 1 .. Len(objects') :
                ( /\ objects'[j].active
                  /\ IsHazard(objects'[j].type)
                  /\ InRange(objects'[j]) )
                => \/ ArrivedLater(objects'[j])
                   \/ \A i \in 1 .. Len(objects) : objects[i].id # objects'[j].id
          /\ \A k \in 1 .. Len(evt'.blasted), j \in 1 .. Len(objects') :
                objects'[j].id = evt'.blasted[k]
                => ~objects'[j].active /\ IsHazard(objects'[j].type)
          /\ \A i \in 1 .. Len(objects), j \in 1 .. Len(objects') :
                ( /\ objects[i].id = objects'[j].id
                  /\ ~IsHazard(objects[i].type)
                  /\ \A k \in 1 .. Len(evt'.collected) :
                        evt'.collected[k] # objects[i].id )
                => objects'[j].active = objects[i].active
          /\ s'.lastSonicBlastTime = s.lastSonicBlastTime ]_vars

---------------------------------------------------------------------------
(* Every entity leaves the registry *)

\* units SpecLive lets a run travel
MaxLiveDistance == 250
\* the ids the entities of SpecLive are named by
MaxLiveIds == 8

\* the rows the spawner draws in SpecLive
LiveRows ==
    { <<<<"OBSTACLE", 0, 8>>>>,
      <<<<"GEM", 1, 12>>>> }

\* a tick of SpecLive: away from the player frames are at the clamp and the
\* player runs in lane 0; the spawner draws a row whenever one fits
LiveTick ==
    \E delta \in Deltas, px \in PlayerLanes, py \in PlayerHeights,
       row \in LiveRows \cup {<<>>} :
        /\ refs.distanceTraveled < Z(MaxLiveDistance)
        /\ Close \/ (delta = MAX_DELTA /\ px = 0 /\ py = 0)
        /\ (row = <<>>) = (\A r \in LiveRows : ~Fits(r))
        /\ Tick(delta, px, py, 0, NextIndex, row)

NextLive ==
    \/ Effect
    \/ EffectDone /\ \E mode \in {"NORMAL", "CHEAT"} : ChooseMode(mode)
    \/ EffectDone /\ ChooseTarget(2)
    \/ LiveTick

\* a tick of SpecLive can be taken and changes the state: this is
\* ENABLED <<LiveTick>>_vars while the run plays
TickEnabled ==
    /\ ~frame
    /\ EffectDone
    /\ s.status = "PLAYING"
    /\ s.speed > 0
    /\ refs.distanceTraveled < Z(MaxLiveDistance)

\* weak fairness of the tick, WF_vars(LiveTick) with its ENABLED written
\* out; the steps of SpecLive that set last to "tick" are its ticks
TickFairness ==
    []<>(~TickEnabled) \/ []<><<last' = "tick">>_vars

\* The frame loop calls the tick on every rendered frame and React runs a
\* pending effect after the render: neither waits for ever.
SpecLive ==
    Init /\ [][NextLive]_vars /\ WF_vars(Effect) /\ TickFairness

InRegistry(id) == \E i \in 1 .. Len(objects) : objects[i].id = id

\* the ticks of SpecLive go on for as long as the entity needs to pass the
\* removal boundary: the run has that much left to travel
CanLeave(id) ==
    \E i \in 1 .. Len(objects) :
        /\ objects[i].id = id
        /\ refs.distanceTraveled + (Z(REMOVE_DISTANCE) - objects[i].z)
              < Z(MaxLiveDistance)

\* the run no longer plays on
PlayStopped == s.status # "PLAYING" \/ s.speed = 0

\* C40: while the status stays PLAYING with speed > 0 and ticks of positive
\* elapsed time keep coming, every entity of the registry, active or not,
\* hit or not, collected or not, is eventually removed from it.
C40_EveryEntityLeaves ==
    \A id \in 1 .. MaxLiveIds :
        CanLeave(id) ~> (~InRegistry(id) \/ PlayStopped)

\* the first entity has left the registry of a run that still plays, was
\* never hit and has collected nothing
C40_Witness ==
    /\ last = "tick"
    /\ s.status = "PLAYING"
    /\ refs.distanceTraveled < Z(MaxLiveDistance)
    /\ objects # <<>>
    /\ \A i \in 1 .. Len(objects) : objects[i].id > 1
    /\ s.gameMode = "NORMAL"
    /\ s.lives = 3
    /\ s.gemsCollected = 0

\* the ids of SpecLive's entities are among those C40 speaks of
C40_IdsCovered ==
    \A i \in 1 .. Len(objects) : objects[i].id <= MaxLiveIds

====
